---- MODULE Spec2Model ----
(***************************************************************************)
(* A model of CacheShard (src/src/cache_shard.rs): the S3-FIFO shard with  *)
(* its node arena, the three circular queues threaded through it, the      *)
(* freelist, the key side-table and the hash index.                        *)
(*                                                                         *)
(* Conventions.                                                            *)
(*  - Slot indices are 1-based (slot i of the model is nodes[i-1] of the    *)
(*    code), so that nodes, nodes_keys and freelist are TLA+ sequences.     *)
(*  - QueueHead::None is the value None (0, never a slot index).           *)
(*  - u32::MAX, the link value of a freed node, is U32_MAX: a number that   *)
(*    is never a slot index, so that indexing with it panics as in Rust.   *)
(*  - The u64 size counters wrap modulo CounterMod = 2^CounterBits.  TLC's  *)
(*    integers are 32 bits wide, so the width is scaled down; the weights  *)
(*    of the model stay far below CounterMod, so a counter only wraps by   *)
(*    going below zero, exactly as it would in 64 bits.                    *)
(*  - Rust's integer overflow is not one behaviour: a build with overflow  *)
(*    checks (debug) panics, a build without (release) wraps.  The build   *)
(*    is the variable overflow_checks, chosen in Init.                     *)
(*  - A panic ends the run of the shard: the field panic names the panic   *)
(*    site, and no operation starts once it is set.  The field wrapped    *)
(*    tells whether the last operation decremented a counter below zero    *)
(*    (and wrapped it); every operation starts with it cleared.            *)
(***************************************************************************)
EXTENDS Integers, Sequences, FiniteSets, TLC

\* ----------------------------------------------------------------- bounds
\* Keys, weights and byte values of the workload; the thresholds handed to
\* CacheShard::new; the number of distinct hash values (1: every two keys
\* collide, so every lookup is decided by the key comparison).
NumKeys == 2
MaxWeight == 2
MaxByte == 1
NumBuckets == 1
SmallThreshold == 1
MainThreshold == 2
GhostThreshold == 2
CounterBits == 16

\* A second workload, for the claims about the shape of the rings: three keys
\* of one weight and one value, and thresholds that let Main hold all three.
NumRingKeys == 3
RingWeight == 1
RingSmallThreshold == 1
RingMainThreshold == 3
RingGhostThreshold == 3

\* A third workload, for the claims about a shard sized from a byte budget:
\* the budget, the thresholds handed to CacheShard::new for it (0.10, 0.90
\* and 0.60 of the budget) and the light weight that is inserted besides the
\* weight of the whole budget.
Budget == 10
BudgetSmallThreshold == 1
BudgetMainThreshold == 9
BudgetGhostThreshold == 6
LightWeight == 1

\* A fourth workload, for the scenarios S1 (budget 100, values of weight 40)
\* and S3 (budget 200, values of weight 150): the thresholds handed to
\* CacheShard::new, the weights and the number of keys.
S1SmallThreshold == 10
S1MainThreshold == 90
S1GhostThreshold == 60
S1Weight == 40
S3SmallThreshold == 20
S3MainThreshold == 180
S3GhostThreshold == 120
S3Weight == 150
NumScenarioKeys == 3

\* The AlsoCache workload: the size given to AlsoCache::with, the number of
\* iterations after which a node_evict loop counts as not terminating, and
\* the cap on the size counters above which no further insert is explored.
AlsoSize == 10
MaxEvictSteps == 8
MaxAlsoCounter == 4

\* The threads workload: the number of threads that call into one shard and
\* the number of calls each of them makes.
NumThreads == 2
CallsPerThread == 2

\* The NodeArena workload: the freq above which no further re-insert of a
\* key is explored (NodeArena::insert_bytes has no ceiling of its own).
MaxArenaFreq == 5

\* ------------------------------------------------------ program constants
U32_MAX == 2147483647
FreqCeiling == 3

CounterMod == 2 ^ CounterBits
None == 0
NoPanic == "none"

Keys == 1 .. NumKeys
Weights == 0 .. MaxWeight
DataSet == {<<>>} \cup {<<b>> : b \in 1 .. MaxByte}
Queues == {"Small", "Main", "Ghost"}

\* shard: the CacheShard.  overflow_checks: the build (TRUE: arithmetic
\* overflow panics; FALSE: it wraps).  last: the operation that ran last, its
\* key, what it returned (get: hit or miss; delete: its bool) and, for an
\* insert, the bytes it was given.
\* cache: the AlsoCache of cache.rs, which the shard workloads leave alone.
\* threads: the callers of the sharded layer, each idle or inside a call on
\* the shard, and the calls in the order in which they took the shard lock.
\* arena: the NodeArena of cache_nodes_arena.rs, which has the fields of the
\* shard.
VARIABLES shard, overflow_checks, last, cache, threads, arena

vars == <<shard, overflow_checks, last, cache, threads, arena>>

\* ---------------------------------------------------------------- hashing
\* hasher.hash_one(key): a deterministic function of the key; keys that are
\* congruent modulo NumBuckets have the same hash.
hash_one(key) == key % NumBuckets

\* A faulty lookup, for comparison: the equality closure is never consulted,
\* so any entry stored under the hash is a hit.
find_by_hash_only(s, hash, key) ==
    {e \in s.map : e.hash = hash}

\* HashTable::find(hash, eq): the entries stored under this hash whose slot
\* index satisfies the equality closure.
find(s, hash, key) ==
    {e \in s.map : e.hash = hash /\ s.nodes_keys[e.idx] = key}

\* ----------------------------------------------------------- u64 counters
sub_overflows(a, b) == a < b
wrapping_sub(a, b) == (a - b) % CounterMod
add_overflows(a, b) == a + b >= CounterMod
wrapping_add(a, b) == (a + b) % CounterMod

\* ------------------------------------------------------------ shard state
new(small_threshold, main_threshold, ghost_threshold) ==
    [map |-> {},
     nodes_keys |-> <<>>,
     nodes |-> <<>>,
     freelist |-> <<>>,
     small_size |-> 0,
     main_size |-> 0,
     ghost_size |-> 0,
     small_threshold |-> small_threshold,
     main_threshold |-> main_threshold,
     ghost_threshold |-> ghost_threshold,
     small_head |-> None,
     main_head |-> None,
     ghost_head |-> None,
     panic |-> NoPanic,
     wrapped |-> FALSE]

panicked(s) == s.panic # NoPanic
Panic(s, site) == IF panicked(s) THEN s ELSE [s EXCEPT !.panic = site]
InRange(s, i) == i \in 1 .. Len(s.nodes)

QueueHead(s, Q) ==
    CASE Q = "Small" -> s.small_head
      [] Q = "Main"  -> s.main_head
      [] Q = "Ghost" -> s.ghost_head

SetHead(s, Q, h) ==
    CASE Q = "Small" -> [s EXCEPT !.small_head = h]
      [] Q = "Main"  -> [s EXCEPT !.main_head = h]
      [] Q = "Ghost" -> [s EXCEPT !.ghost_head = h]

Size(s, Q) ==
    CASE Q = "Small" -> s.small_size
      [] Q = "Main"  -> s.main_size
      [] Q = "Ghost" -> s.ghost_size

SetSize(s, Q, v) ==
    CASE Q = "Small" -> [s EXCEPT !.small_size = v]
      [] Q = "Main"  -> [s EXCEPT !.main_size = v]
      [] Q = "Ghost" -> [s EXCEPT !.ghost_size = v]

\* size -= w on a u64 counter: panics in a build with overflow checks, wraps
\* in a build without.
SubSize(s, Q, w) ==
    IF sub_overflows(Size(s, Q), w)
    THEN IF overflow_checks
         THEN Panic(s, "sub_overflow")
         ELSE [SetSize(s, Q, wrapping_sub(Size(s, Q), w)) EXCEPT !.wrapped = TRUE]
    ELSE SetSize(s, Q, Size(s, Q) - w)

\* size += w on a u64 counter.
AddSize(s, Q, w) ==
    IF add_overflows(Size(s, Q), w)
    THEN IF overflow_checks
         THEN Panic(s, "add_overflow")
         ELSE SetSize(s, Q, wrapping_add(Size(s, Q), w))
    ELSE SetSize(s, Q, Size(s, Q) + w)

\* ------------------------------------------------------- list primitives
\* A faulty unlink_node, for comparison: the prev link of the successor is
\* not redirected.
unlink_node_one_way(s, idx) ==
    LET next_idx == s.nodes[idx].next
        prev_idx == s.nodes[idx].prev
    IN  IF ~InRange(s, prev_idx) \/ ~InRange(s, next_idx)
        THEN Panic(s, "index")
        ELSE LET n1 == [s.nodes EXCEPT ![idx].queue = "NoQueue"]
                 n2 == [n1 EXCEPT ![prev_idx].next = next_idx]
                 n4 == [n2 EXCEPT ![idx].next = idx, ![idx].prev = idx]
             IN  [s EXCEPT !.nodes = n4]

\* unlink_node: the node is taken out of its ring and made a ring of its own.
unlink_node(s, idx) ==
    LET next_idx == s.nodes[idx].next
        prev_idx == s.nodes[idx].prev
    IN  IF ~InRange(s, prev_idx) \/ ~InRange(s, next_idx)
        THEN Panic(s, "index")
        ELSE LET n1 == [s.nodes EXCEPT ![idx].queue = "NoQueue"]
                 n2 == [n1 EXCEPT ![prev_idx].next = next_idx]
                 n3 == [n2 EXCEPT ![next_idx].prev = prev_idx]
                 n4 == [n3 EXCEPT ![idx].next = idx, ![idx].prev = idx]
             IN  [s EXCEPT !.nodes = n4]

\* prev_node: None when the node is its own prev (the only node of its ring).
prev_node(s, idx) ==
    IF s.nodes[idx].prev = idx THEN None ELSE s.nodes[idx].prev

\* A faulty pop_head, for comparison: the youngest member (head.next) is
\* detached instead of the head.
pop_head_youngest(s, Q) ==
    LET h == QueueHead(s, Q)
    IN  IF h = None
        THEN [s |-> s, detached |-> None]
        ELSE IF ~InRange(s, h) \/ ~InRange(s, s.nodes[h].next)
        THEN [s |-> Panic(s, "index"), detached |-> h]
        ELSE IF s.nodes[h].next = h
        THEN [s |-> unlink_node(SetHead(s, Q, None), h), detached |-> h]
        ELSE [s |-> unlink_node(s, s.nodes[h].next),
              detached |-> s.nodes[h].next]

\* pop_head: [s |-> the state after, detached |-> the former head or None].
pop_head(s, Q) ==
    LET h == QueueHead(s, Q)
    IN  IF h = None
        THEN [s |-> s, detached |-> None]
        ELSE IF ~InRange(s, h)
        THEN [s |-> Panic(s, "index"), detached |-> h]
        ELSE [s |-> unlink_node(SetHead(s, Q, prev_node(s, h)), h),
              detached |-> h]

move_to_queue(s, idx, Q) ==
    LET n0 == [s.nodes EXCEPT ![idx].queue = Q]
        h  == QueueHead(s, Q)
    IN  IF h = None
        THEN SetHead([s EXCEPT !.nodes = n0], Q, idx)
        ELSE IF ~InRange(s, h) \/ ~InRange(s, n0[h].next)
        THEN Panic(s, "index")
        ELSE LET tail_idx == n0[h].next
                 n1 == [n0 EXCEPT ![tail_idx].prev = idx]
                 n2 == [n1 EXCEPT ![idx].prev = h]
                 n3 == [n2 EXCEPT ![idx].next = tail_idx]
                 n4 == [n3 EXCEPT ![h].next = idx]
             IN  [s EXCEPT !.nodes = n4]

evict_node(s, idx) ==
    [s EXCEPT !.nodes[idx].data = <<>>,
              !.nodes[idx].weight = 0,
              !.nodes[idx].freq = 0,
              !.nodes[idx].next = U32_MAX,
              !.nodes[idx].prev = U32_MAX]

\* A faulty occupy_node, for comparison: the new node starts with freq 1, as
\* if it had been read.
occupy_node_as_read(s, idx, data_size, data) ==
    [s EXCEPT !.nodes[idx].data = data,
              !.nodes[idx].weight = data_size,
              !.nodes[idx].freq = 1,
              !.nodes[idx].next = idx,
              !.nodes[idx].prev = idx]

occupy_node(s, idx, data_size, data) ==
    [s EXCEPT !.nodes[idx].data = data,
              !.nodes[idx].weight = data_size,
              !.nodes[idx].freq = 0,
              !.nodes[idx].next = idx,
              !.nodes[idx].prev = idx]

\* A faulty delete_node, for comparison: the node is freed without being
\* taken out of its ring.
delete_node_without_unlink(s, idx, Q) ==
    evict_node(s, idx)

\* delete_node: the head is popped, any other node is unlinked; then freed.
delete_node(s, idx, Q) ==
    IF QueueHead(s, Q) = idx
    THEN LET p == pop_head(s, Q)
         IN  IF panicked(p.s) THEN p.s ELSE evict_node(p.s, p.detached)
    ELSE LET u == unlink_node(s, idx)
         IN  IF panicked(u) THEN u ELSE evict_node(u, idx)

\* --------------------------------------------------------- arena and index
\* A faulty create_node, for comparison: the freelist is never consulted and
\* every allocation appends a node.
create_node_always_appends(s, data_size, data) ==
    LET new_idx == Len(s.nodes) + 1
    IN  [s |-> [s EXCEPT !.nodes = Append(s.nodes,
                   [data |-> data, weight |-> data_size,
                    next |-> new_idx, prev |-> new_idx,
                    freq |-> 0, queue |-> "NoQueue"])],
         idx |-> new_idx]

\* create_node: [s |-> the state after, idx |-> the slot].
create_node(s, data_size, data) ==
    IF Len(s.freelist) > 0
    THEN LET freed == s.freelist[Len(s.freelist)]
             s1 == [s EXCEPT !.freelist = SubSeq(s.freelist, 1, Len(s.freelist) - 1)]
         IN  [s |-> occupy_node(s1, freed, data_size, data), idx |-> freed]
    ELSE LET new_idx == Len(s.nodes) + 1
         IN  [s |-> [s EXCEPT !.nodes = Append(s.nodes,
                        [data |-> data, weight |-> data_size,
                         next |-> new_idx, prev |-> new_idx,
                         freq |-> 0, queue |-> "NoQueue"])],
              idx |-> new_idx]

\* A faulty handle_node_eviction, for comparison: the slot goes on the
\* freelist but its index entry is kept.
handle_node_eviction_keeps_index(s, idx) ==
    [s EXCEPT !.freelist = Append(s.freelist, idx)]

\* A faulty handle_node_eviction, for comparison: every entry stored under
\* the hash of the slot's key is removed, whatever slot index it holds.
handle_node_eviction_by_hash(s, idx) ==
    LET hash == hash_one(s.nodes_keys[idx])
    IN  [s EXCEPT !.map = {e \in s.map : e.hash # hash},
                  !.freelist = Append(s.freelist, idx)]

\* handle_node_eviction: the index entry stored under the hash of the slot's
\* key and holding this slot index is removed; the slot goes on the freelist.
handle_node_eviction(s, idx) ==
    LET hash == hash_one(s.nodes_keys[idx])
    IN  [s EXCEPT !.map = {e \in s.map : ~(e.hash = hash /\ e.idx = idx)},
                  !.freelist = Append(s.freelist, idx)]

\* A faulty promote_to_main, for comparison: the freq of the promoted node
\* is kept.
promote_to_main_keeps_freq(s, idx) ==
    LET s2 == AddSize(s, "Main", s.nodes[idx].weight)
    IN  IF panicked(s2) THEN s2 ELSE move_to_queue(s2, idx, "Main")

promote_to_main(s, idx) ==
    LET s1 == [s EXCEPT !.nodes[idx].freq = 0]
        s2 == AddSize(s1, "Main", s1.nodes[idx].weight)
    IN  IF panicked(s2) THEN s2 ELSE move_to_queue(s2, idx, "Main")

\* A faulty demote_to_ghost, for comparison: the data of the demoted node is
\* kept.
demote_to_ghost_keeps_data(s, idx) ==
    LET s1 == AddSize(s, "Ghost", s.nodes[idx].weight)
    IN  IF panicked(s1) THEN s1 ELSE move_to_queue(s1, idx, "Ghost")

demote_to_ghost(s, idx) ==
    LET s1 == AddSize(s, "Ghost", s.nodes[idx].weight)
        s2 == IF panicked(s1) THEN s1 ELSE move_to_queue(s1, idx, "Ghost")
    IN  IF panicked(s2) THEN s2 ELSE [s2 EXCEPT !.nodes[idx].data = <<>>]

allocate_small(s, data_size, data) ==
    LET c  == create_node(s, data_size, data)
        s1 == AddSize(c.s, "Small", data_size)
    IN  [s |-> IF panicked(s1) THEN s1 ELSE move_to_queue(s1, c.idx, "Small"),
         idx |-> c.idx]

\* ------------------------------------------------------- eviction cascade
\* A faulty Small step, for comparison: a head with freq > 0 is given a
\* second chance in Small (freq lowered by one, linked into Small again)
\* instead of being promoted.
evict_small_step_second_chance(s) ==
    LET p == pop_head(s, "Small")
    IN  IF p.detached = None
        THEN Panic(s, "evict_small_empty")
        ELSE IF panicked(p.s)
        THEN p.s
        ELSE LET d == p.detached
             IN  IF p.s.nodes[d].freq > 0
                 THEN move_to_queue(
                          [p.s EXCEPT !.nodes[d].freq = @ - 1], d, "Small")
                 ELSE LET s1 == SubSize(p.s, "Small", p.s.nodes[d].weight)
                      IN  IF panicked(s1) THEN s1 ELSE demote_to_ghost(s1, d)

\* One iteration of the loop of evict_small_if_needed: the Small head is
\* popped, small_size lowered by its weight, and the node promoted to Main
\* (freq > 0) or demoted to Ghost.
evict_small_step(s) ==
    LET p == pop_head(s, "Small")
    IN  IF p.detached = None
        THEN Panic(s, "evict_small_empty")
        ELSE IF panicked(p.s)
        THEN p.s
        ELSE LET d  == p.detached
                 s1 == SubSize(p.s, "Small", p.s.nodes[d].weight)
             IN  IF panicked(s1)
                 THEN s1
                 ELSE IF s1.nodes[d].freq > 0
                 THEN promote_to_main(s1, d)
                 ELSE demote_to_ghost(s1, d)

RECURSIVE evict_small_if_needed(_)
evict_small_if_needed(s) ==
    IF panicked(s) \/ ~(s.small_size > s.small_threshold)
    THEN s
    ELSE evict_small_if_needed(evict_small_step(s))

\* One iteration of the loop of evict_ghost_if_needed: the Ghost head is
\* popped, ghost_size lowered by its weight, and the node promoted to Main
\* (freq > 0 and data non-empty) or freed.
evict_ghost_step(s) ==
    LET p == pop_head(s, "Ghost")
    IN  IF p.detached = None
        THEN Panic(s, "evict_ghost_empty")
        ELSE IF panicked(p.s)
        THEN p.s
        ELSE LET d  == p.detached
                 s1 == SubSize(p.s, "Ghost", p.s.nodes[d].weight)
             IN  IF panicked(s1)
                 THEN s1
                 ELSE IF s1.nodes[d].freq > 0 /\ Len(s1.nodes[d].data) > 0
                 THEN promote_to_main(s1, d)
                 ELSE handle_node_eviction(evict_node(s1, d), d)

RECURSIVE evict_ghost_if_needed(_)
evict_ghost_if_needed(s) ==
    IF panicked(s) \/ ~(s.ghost_size > s.ghost_threshold)
    THEN s
    ELSE evict_ghost_if_needed(evict_ghost_step(s))

\* One iteration of the loop of evict_main_if_needed: the Main head is
\* popped and either given a second chance (freq > 0: freq lowered by one,
\* node linked into Main again) or freed with main_size lowered by its
\* weight.
evict_main_step(s) ==
    LET p == pop_head(s, "Main")
    IN  IF p.detached = None
        THEN Panic(s, "evict_main_empty")
        ELSE IF panicked(p.s)
        THEN p.s
        ELSE LET d == p.detached
             IN  IF p.s.nodes[d].freq > 0
                 THEN move_to_queue(
                          [p.s EXCEPT !.nodes[d].freq = @ - 1], d, "Main")
                 ELSE LET s1 == SubSize(p.s, "Main", p.s.nodes[d].weight)
                      IN  IF panicked(s1)
                          THEN s1
                          ELSE handle_node_eviction(evict_node(s1, d), d)

RECURSIVE evict_main_if_needed(_)
evict_main_if_needed(s) ==
    IF panicked(s) \/ ~(s.main_size > s.main_threshold)
    THEN s
    ELSE evict_main_if_needed(evict_main_step(s))

\* The cascade of insert_bytes: Small, then Ghost, then Main.
evict_cascade(s) ==
    evict_main_if_needed(evict_ghost_if_needed(evict_small_if_needed(s)))

\* ------------------------------------------------------ public operations
\* A faulty get_bytes, for comparison: freq is incremented without a ceiling.
get_bytes_unsaturated(s, key) ==
    LET hits == find(s, hash_one(key), key)
    IN  IF hits = {}
        THEN [s |-> s, found |-> FALSE, bytes |-> <<>>]
        ELSE LET idx == (CHOOSE e \in hits : TRUE).idx
                 s1  == [s EXCEPT !.nodes[idx].freq = @ + 1]
             IN  IF Len(s1.nodes[idx].data) # 0
                 THEN [s |-> s1, found |-> TRUE, bytes |-> s1.nodes[idx].data]
                 ELSE [s |-> s1, found |-> FALSE, bytes |-> <<>>]

\* get_bytes: [s, found, bytes]; found = FALSE is Option::None.
get_bytes(s, key) ==
    LET hits == find(s, hash_one(key), key)
    IN  IF hits = {}
        THEN [s |-> s, found |-> FALSE, bytes |-> <<>>]
        ELSE LET idx == (CHOOSE e \in hits : TRUE).idx
                 s1  == IF s.nodes[idx].freq < FreqCeiling
                        THEN [s EXCEPT !.nodes[idx].freq = @ + 1]
                        ELSE s
             IN  IF Len(s1.nodes[idx].data) # 0
                 THEN [s |-> s1, found |-> TRUE, bytes |-> s1.nodes[idx].data]
                 ELSE [s |-> s1, found |-> FALSE, bytes |-> <<>>]

\* A faulty existing-key branch, for comparison: freq is incremented without
\* a ceiling.
insert_existing_unsaturated(s, idx, data_size, data) ==
    LET s1 == [s EXCEPT !.nodes[idx].freq = @ + 1]
        old == s1.nodes[idx].weight
        q   == s1.nodes[idx].queue
    IN  IF sub_overflows(data_size, old) /\ overflow_checks
        THEN Panic(s1, "weight_diff_overflow")
        ELSE LET weight_diff == wrapping_sub(data_size, old)
                 s2 == CASE q = "Small"   -> AddSize(s1, "Small", weight_diff)
                         [] q = "Main"    -> AddSize(s1, "Main", weight_diff)
                         [] q = "Ghost"   -> AddSize(s1, "Main", weight_diff)
                         [] q = "NoQueue" -> s1
             IN  IF panicked(s2)
                 THEN s2
                 ELSE [s2 EXCEPT !.nodes[idx].data = data,
                                 !.nodes[idx].weight = data_size]

\* A faulty existing-key branch, for comparison: the stored data is not
\* replaced.
insert_existing_keeps_data(s, idx, data_size, data) ==
    LET s1 == IF s.nodes[idx].freq < FreqCeiling
              THEN [s EXCEPT !.nodes[idx].freq = @ + 1]
              ELSE s
        old == s1.nodes[idx].weight
        q   == s1.nodes[idx].queue
    IN  IF sub_overflows(data_size, old) /\ overflow_checks
        THEN Panic(s1, "weight_diff_overflow")
        ELSE LET weight_diff == wrapping_sub(data_size, old)
                 s2 == CASE q = "Small"   -> AddSize(s1, "Small", weight_diff)
                         [] q = "Main"    -> AddSize(s1, "Main", weight_diff)
                         [] q = "Ghost"   -> AddSize(s1, "Main", weight_diff)
                         [] q = "NoQueue" -> s1
             IN  IF panicked(s2)
                 THEN s2
                 ELSE [s2 EXCEPT !.nodes[idx].weight = data_size]

\* The existing-key branch of insert_bytes, before the cascade.
insert_existing(s, idx, data_size, data) ==
    LET s1 == IF s.nodes[idx].freq < FreqCeiling
              THEN [s EXCEPT !.nodes[idx].freq = @ + 1]
              ELSE s
        old == s1.nodes[idx].weight
        q   == s1.nodes[idx].queue
    IN  IF sub_overflows(data_size, old) /\ overflow_checks
        THEN Panic(s1, "weight_diff_overflow")
        ELSE LET weight_diff == wrapping_sub(data_size, old)
                 s2 == CASE q = "Small"   -> AddSize(s1, "Small", weight_diff)
                         [] q = "Main"    -> AddSize(s1, "Main", weight_diff)
                         [] q = "Ghost"   -> AddSize(s1, "Main", weight_diff)
                         [] q = "NoQueue" -> s1
             IN  IF panicked(s2)
                 THEN s2
                 ELSE [s2 EXCEPT !.nodes[idx].data = data,
                                 !.nodes[idx].weight = data_size]

\* The new-key branch of insert_bytes, before the cascade.
insert_new(s, key, data_size, data) ==
    LET a == allocate_small(s, data_size, data)
    IN  IF panicked(a.s)
        THEN a.s
        ELSE [a.s EXCEPT
                !.nodes_keys = IF a.idx = Len(a.s.nodes_keys) + 1
                               THEN Append(a.s.nodes_keys, key)
                               ELSE [a.s.nodes_keys EXCEPT ![a.idx] = key],
                !.map = a.s.map \cup {[hash |-> hash_one(key), idx |-> a.idx]}]

\* A faulty admission, for comparison: the index is not consulted and every
\* insert allocates a node.
insert_admit_always_new(s, key, data_size, data) ==
    insert_new(s, key, data_size, data)

\* insert_bytes up to the cascade.
insert_admit(s, key, data_size, data) ==
    LET hits == find(s, hash_one(key), key)
    IN  IF hits # {}
        THEN insert_existing(s, (CHOOSE e \in hits : TRUE).idx, data_size, data)
        ELSE insert_new(s, key, data_size, data)

insert_bytes(s, key, data_size, data) ==
    evict_cascade(insert_admit(s, key, data_size, data))

\* A faulty delete, for comparison: an entry in Main is reported as not
\* deleted and left in place.
delete_skips_main(s, key) ==
    LET hits == find(s, hash_one(key), key)
    IN  IF hits = {}
        THEN [s |-> s, ret |-> FALSE]
        ELSE LET idx == (CHOOSE e \in hits : TRUE).idx
                 q   == s.nodes[idx].queue
             IN  IF Len(s.nodes[idx].data) <= 0 \/ q \in {"NoQueue", "Main"}
                 THEN [s |-> s, ret |-> FALSE]
                 ELSE LET s1 == SubSize(s, q, s.nodes[idx].weight)
                          s2 == IF panicked(s1) THEN s1 ELSE delete_node(s1, idx, q)
                          s3 == IF panicked(s2) THEN s2 ELSE handle_node_eviction(s2, idx)
                      IN  [s |-> s3, ret |-> TRUE]

\* A faulty delete, for comparison: the size is lowered but the node is
\* neither unlinked nor freed.
delete_size_only(s, key) ==
    LET hits == find(s, hash_one(key), key)
    IN  IF hits = {}
        THEN [s |-> s, ret |-> FALSE]
        ELSE LET idx == (CHOOSE e \in hits : TRUE).idx
                 q   == s.nodes[idx].queue
             IN  IF Len(s.nodes[idx].data) <= 0 \/ q = "NoQueue"
                 THEN [s |-> s, ret |-> FALSE]
                 ELSE [s |-> SubSize(s, q, s.nodes[idx].weight), ret |-> TRUE]

\* delete: [s, ret].
delete(s, key) ==
    LET hits == find(s, hash_one(key), key)
    IN  IF hits = {}
        THEN [s |-> s, ret |-> FALSE]
        ELSE LET idx == (CHOOSE e \in hits : TRUE).idx
                 q   == s.nodes[idx].queue
             IN  IF Len(s.nodes[idx].data) <= 0
                 THEN [s |-> s, ret |-> FALSE]
                 ELSE IF q = "NoQueue"
                 THEN [s |-> s, ret |-> FALSE]
                 ELSE LET s1 == SubSize(s, q, s.nodes[idx].weight)
                          s2 == IF panicked(s1) THEN s1 ELSE delete_node(s1, idx, q)
                          s3 == IF panicked(s2) THEN s2 ELSE handle_node_eviction(s2, idx)
                      IN  [s |-> s3, ret |-> TRUE]

\* ------------------------------------------------------------ the machine
\* ------------------------------------------------ AlsoCache (src/cache.rs)
\* The single-shard cache of cache.rs.  Its record has the queue heads, sizes
\* and thresholds under the names of the shard's, so QueueHead, SetHead, Size,
\* SubSize and AddSize apply to it; its nodes carry data_size, frequency and
\* fifo.  steps counts the iterations of node_evict within one call.

\* AlsoCache::with: the thresholds are 0.1, 0.9 and 0.9 of size, truncated.
AlsoCache_with(size) ==
    [map |-> {},
     nodes_keys |-> <<>>,
     nodes |-> <<>>,
     nodes_freelist |-> <<>>,
     small_head |-> None,
     main_head |-> None,
     ghost_head |-> None,
     small_threshold |-> size \div 10,
     main_threshold |-> (size * 9) \div 10,
     ghost_threshold |-> (size * 9) \div 10,
     small_size |-> 0,
     main_size |-> 0,
     ghost_size |-> 0,
     panic |-> NoPanic,
     wrapped |-> FALSE,
     steps |-> 0]

Threshold(c, Q) ==
    CASE Q = "Small" -> c.small_threshold
      [] Q = "Main"  -> c.main_threshold
      [] Q = "Ghost" -> c.ghost_threshold

\* DefaultWeighter::weight: the length of the bytes.
weight(val) == Len(val)

\* drop_node: the index entry that holds this slot is removed, the node is
\* reset with both links at usize::MAX, and the slot goes to the freelist.
\* Neither the ring nor the size of the queue is touched.
drop_node(c, node_idx) ==
    LET hash == hash_one(c.nodes_keys[node_idx])
    IN  [c EXCEPT
           !.map = {e \in c.map : ~(e.hash = hash /\ e.idx = node_idx)},
           !.nodes[node_idx] = [next |-> U32_MAX, prev |-> U32_MAX,
                                data |-> <<>>, data_size |-> 0,
                                frequency |-> 0, fifo |-> "Small"],
           !.nodes_freelist = Append(c.nodes_freelist, node_idx)]

\* unlink_from_queue: the size of the node's fifo is decremented, its
\* neighbours are linked to each other and the node to itself.
unlink_from_queue(c, node_idx) ==
    LET c1 == SubSize(c, c.nodes[node_idx].fifo, c.nodes[node_idx].data_size)
        prev_idx == c.nodes[node_idx].prev
        next_idx == c.nodes[node_idx].next
    IN  IF panicked(c1)
        THEN c1
        ELSE IF ~InRange(c1, prev_idx) \/ ~InRange(c1, next_idx)
        THEN Panic(c1, "index")
        ELSE LET n1 == [c1.nodes EXCEPT ![prev_idx].next = next_idx]
                 n2 == [n1 EXCEPT ![next_idx].prev = prev_idx]
                 n3 == [n2 EXCEPT ![node_idx].next = node_idx]
                 n4 == [n3 EXCEPT ![node_idx].prev = node_idx]
             IN  [c1 EXCEPT !.nodes = n4]

\* put_into_queue: the size of the fifo of the head node is incremented and
\* the node is linked in as head.next.
put_into_queue(c, node_idx, head_idx) ==
    IF ~InRange(c, head_idx)
    THEN Panic(c, "index")
    ELSE LET c1 == AddSize(c, c.nodes[head_idx].fifo,
                           c.nodes[node_idx].data_size)
             tail_idx == c.nodes[head_idx].next
         IN  IF panicked(c1)
             THEN c1
             ELSE IF ~InRange(c1, tail_idx)
             THEN Panic(c1, "index")
             ELSE LET n1 == [c1.nodes EXCEPT ![tail_idx].prev = node_idx]
                      n2 == [n1 EXCEPT ![node_idx].prev = head_idx]
                      n3 == [n2 EXCEPT ![node_idx].next = tail_idx]
                      n4 == [n3 EXCEPT ![head_idx].next = node_idx]
                  IN  [c1 EXCEPT !.nodes = n4]

RECURSIVE node_advance(_, _, _, _)
RECURSIVE node_evict(_, _)
RECURSIVE node_evict_loop(_, _, _, _)

\* node_advance: unless the node is new, the head of its current fifo is
\* moved to its prev when the node is that head, and the node is unlinked;
\* then it enters queue_name (dropping its data for Ghost), and node_evict
\* runs when that queue is over its threshold.
node_advance(c, node_idx, queue_name, new_node) ==
    LET f  == c.nodes[node_idx].fifo
        c0 == IF QueueHead(c, f) = node_idx
              THEN SetHead(c, f, c.nodes[node_idx].prev)
              ELSE c
        c1 == IF new_node THEN c ELSE unlink_from_queue(c0, node_idx)
    IN  IF panicked(c1)
        THEN c1
        ELSE LET c2 == IF queue_name = "Ghost"
                       THEN [c1 EXCEPT !.nodes[node_idx].data = <<>>]
                       ELSE c1
                 c3 == [c2 EXCEPT !.nodes[node_idx].fifo = queue_name]
                 head == QueueHead(c3, queue_name)
                 c4 == IF head # None
                       THEN put_into_queue(c3, node_idx, head)
                       ELSE AddSize(SetHead(c3, queue_name, node_idx),
                                    queue_name, c3.nodes[node_idx].data_size)
             IN  IF panicked(c4)
                 THEN c4
                 ELSE IF Size(c4, queue_name) > Threshold(c4, queue_name)
                 THEN node_evict(c4, queue_name)
                 ELSE c4

\* node_evict: head.expect(..), then the loop on the local size and head.
node_evict(c, queue_name) ==
    IF QueueHead(c, queue_name) = None
    THEN Panic(c, "expect_head")
    ELSE node_evict_loop(c, queue_name, Size(c, queue_name),
                         QueueHead(c, queue_name))

\* One iteration of the while loop of node_evict and the rest of the loop.
\* A loop that is still running after MaxEvictSteps iterations is reported as
\* the site "hang".
node_evict_loop(c, queue_name, size, head) ==
    IF panicked(c) \/ ~(size > Threshold(c, queue_name))
    THEN c
    ELSE IF c.steps >= MaxEvictSteps
    THEN Panic(c, "hang")
    ELSE IF ~InRange(c, head)
    THEN Panic(c, "index")
    ELSE IF c.nodes[head].prev = head /\ c.nodes[head].next = head
    THEN drop_node(SetHead(c, queue_name, None), head)
    ELSE LET new_head == c.nodes[head].prev
             c1  == SetHead([c EXCEPT !.steps = @ + 1], queue_name, new_head)
             hot == c1.nodes[head].frequency > 0
             cold == [c1 EXCEPT !.nodes[head].frequency = 0]
             un  == unlink_from_queue(c1, head)
             c2  == CASE queue_name = "Small" /\ hot ->
                           node_advance(cold, head, "Main", FALSE)
                      [] queue_name = "Small" /\ ~hot ->
                           node_advance(c1, head, "Ghost", FALSE)
                      [] queue_name = "Ghost" /\ hot ->
                           node_advance(cold, head, "Main", FALSE)
                      [] queue_name = "Ghost" /\ ~hot ->
                           IF panicked(un) THEN un ELSE drop_node(un, head)
                      [] queue_name = "Main" /\ hot ->
                           LET u1 == unlink_from_queue(
                                        [c1 EXCEPT !.nodes[head].frequency = @ - 1],
                                        head)
                           IN  IF panicked(u1)
                               THEN u1
                               ELSE put_into_queue(u1, head, new_head)
                      [] queue_name = "Main" /\ ~hot ->
                           IF panicked(un) THEN un ELSE drop_node(un, head)
         IN  IF panicked(c2)
             THEN c2
             ELSE node_evict_loop(c2, queue_name, Size(c2, queue_name),
                                  new_head)

\* AlsoCache::get_bytes: the frequency is incremented up to 3, then the data
\* is returned unless the node is in Ghost.
AlsoCache_get_bytes(c, key) ==
    LET hits == find(c, hash_one(key), key)
    IN  IF hits = {}
        THEN [c |-> c, found |-> FALSE, bytes |-> <<>>]
        ELSE LET node_idx == (CHOOSE e \in hits : TRUE).idx
                 c1 == IF c.nodes[node_idx].frequency < FreqCeiling
                       THEN [c EXCEPT !.nodes[node_idx].frequency = @ + 1]
                       ELSE c
             IN  IF c1.nodes[node_idx].fifo # "Ghost"
                 THEN [c |-> c1, found |-> TRUE,
                       bytes |-> c1.nodes[node_idx].data]
                 ELSE [c |-> c1, found |-> FALSE, bytes |-> <<>>]

\* AlsoCache::insert_bytes.  An existing key gets the new data (its data_size
\* is left as it was) and a frequency increment, and is advanced to Main
\* when it is in Ghost.  A new key gets a node from the freelist or a new
\* one, an index entry, and is advanced into Small.
AlsoCache_insert_bytes(c, key, val) ==
    LET hash == hash_one(key)
        hits == find(c, hash, key)
    IN  IF hits # {}
        THEN LET existing_idx == (CHOOSE e \in hits : TRUE).idx
                 c1 == [c EXCEPT !.nodes[existing_idx].data = val]
                 c2 == IF c1.nodes[existing_idx].frequency < FreqCeiling
                       THEN [c1 EXCEPT !.nodes[existing_idx].frequency = @ + 1]
                       ELSE c1
             IN  IF c2.nodes[existing_idx].fifo = "Ghost"
                 THEN node_advance(c2, existing_idx, "Main", FALSE)
                 ELSE c2
        ELSE LET reuse == Len(c.nodes_freelist) > 0
                 idx == IF reuse
                        THEN c.nodes_freelist[Len(c.nodes_freelist)]
                        ELSE Len(c.nodes) + 1
                 node == [next |-> idx, prev |-> idx, data |-> val,
                          data_size |-> weight(val), frequency |-> 0,
                          fifo |-> "Small"]
                 c1 == IF reuse
                       THEN [c EXCEPT
                               !.nodes_freelist =
                                   SubSeq(c.nodes_freelist, 1,
                                          Len(c.nodes_freelist) - 1),
                               !.nodes_keys[idx] = key,
                               !.nodes[idx] = node]
                       ELSE [c EXCEPT
                               !.nodes_keys = Append(c.nodes_keys, key),
                               !.nodes = Append(c.nodes, node)]
                 c2 == [c1 EXCEPT
                          !.map = c1.map \cup {[hash |-> hash, idx |-> idx]}]
             IN  node_advance(c2, idx, "Small", TRUE)

\* A value of the callers: its type, and its number n (a u8) or its bytes s
\* (a string).
\* bincode's standard encoding of the values the callers store: a u8 is its
\* one byte, a string is its length followed by its bytes, and a value whose
\* Serialize implementation reports an error has no encoding.
serialize(value) ==
    CASE value.ty = "u8"      -> [ok |-> TRUE, bytes |-> <<value.n>>]
      [] value.ty = "string"  -> [ok |-> TRUE,
                                  bytes |-> <<Len(value.s)>> \o value.s]
      [] value.ty = "failing" -> [ok |-> FALSE, bytes |-> <<>>]

\* bincode's decoding of bytes as the type the caller asks for: trailing
\* bytes are ignored, missing bytes are a DecodeError.
deserialize(ty, bytes) ==
    CASE ty = "u8" ->
           IF Len(bytes) >= 1
           THEN [ok |-> TRUE,
                 value |-> [ty |-> "u8", n |-> bytes[1], s |-> <<>>]]
           ELSE [ok |-> FALSE, value |-> [ty |-> "u8", n |-> 0, s |-> <<>>]]
      [] ty = "string" ->
           IF Len(bytes) >= 1 /\ Len(bytes) >= 1 + bytes[1]
           THEN [ok |-> TRUE,
                 value |-> [ty |-> "string", n |-> 0,
                            s |-> SubSeq(bytes, 2, 1 + bytes[1])]]
           ELSE [ok |-> FALSE,
                 value |-> [ty |-> "string", n |-> 0, s |-> <<>>]]

\* AlsoCache::get: get_bytes, then deserialize.
AlsoCache_get(c, key, ty) ==
    LET r == AlsoCache_get_bytes(c, key)
        d == deserialize(ty, r.bytes)
    IN  IF ~r.found
        THEN [c |-> r.c, ret |-> "KeyNotFound", value |-> d.value]
        ELSE IF d.ok
        THEN [c |-> r.c, ret |-> "Ok", value |-> d.value]
        ELSE [c |-> r.c, ret |-> "Decode", value |-> d.value]

\* AlsoCache::insert: serialize, then insert_bytes.
AlsoCache_insert(c, key, value) ==
    LET e == serialize(value)
    IN  IF ~e.ok
        THEN [c |-> c, ret |-> "Encode"]
        ELSE [c |-> AlsoCache_insert_bytes(c, key, e.bytes), ret |-> "Ok"]

\* ------------------------------------------- callers of the sharded layer
Threads == 1 .. NumThreads
NoCall == [op |-> "none", key |-> 0, data_size |-> 0, data |-> <<>>]

\* Every thread idle with all its calls to make, and no call made yet.
NoThreads ==
    [th |-> [t \in Threads |->
                [pc |-> "idle", call |-> NoCall, pos |-> 0,
                 left |-> CallsPerThread,
                 snap |-> new(SmallThreshold, MainThreshold, GhostThreshold)]],
     order |-> <<>>]

\* The shard as an operation finds it: the wrap flag of the last one cleared.
Begin(s) == [s EXCEPT !.wrapped = FALSE]

Init ==
    /\ shard = new(SmallThreshold, MainThreshold, GhostThreshold)
    /\ overflow_checks \in BOOLEAN
    /\ last = [op |-> "new", key |-> 0, ret |-> FALSE, data |-> <<>>]
    /\ cache = AlsoCache_with(AlsoSize)
    /\ threads = NoThreads
    /\ arena = new(SmallThreshold, MainThreshold, GhostThreshold)

Get(key) ==
    /\ ~panicked(shard)
    /\ LET r == get_bytes(Begin(shard), key)
       IN  /\ shard' = r.s
           /\ last' = [op |-> "get", key |-> key, ret |-> r.found, data |-> <<>>]
    /\ UNCHANGED <<overflow_checks, cache, threads, arena>>

Insert(key, data_size, data) ==
    /\ ~panicked(shard)
    /\ shard' = insert_bytes(Begin(shard), key, data_size, data)
    /\ last' = [op |-> "insert", key |-> key, ret |-> TRUE, data |-> data]
    /\ UNCHANGED <<overflow_checks, cache, threads, arena>>

Delete(key) ==
    /\ ~panicked(shard)
    /\ LET r == delete(Begin(shard), key)
       IN  /\ shard' = r.s
           /\ last' = [op |-> "delete", key |-> key, ret |-> r.ret, data |-> <<>>]
    /\ UNCHANGED <<overflow_checks, cache, threads, arena>>

Next ==
    \/ \E key \in Keys : Get(key)
    \/ \E key \in Keys, data_size \in Weights, data \in DataSet :
           Insert(key, data_size, data)
    \/ \E key \in Keys : Delete(key)

Spec == Init /\ [][Next]_vars

\* The ring workload: the same operations on three keys.
RingKeys == 1 .. NumRingKeys

InitRing ==
    /\ shard = new(RingSmallThreshold, RingMainThreshold, RingGhostThreshold)
    /\ overflow_checks \in BOOLEAN
    /\ last = [op |-> "new", key |-> 0, ret |-> FALSE, data |-> <<>>]
    /\ cache = AlsoCache_with(AlsoSize)
    /\ threads = NoThreads
    /\ arena = new(SmallThreshold, MainThreshold, GhostThreshold)

NextRing ==
    \/ \E key \in RingKeys : Get(key)
    \/ \E key \in RingKeys : Insert(key, RingWeight, <<1>>)
    \/ \E key \in RingKeys : Delete(key)

SpecRing == InitRing /\ [][NextRing]_vars

\* The budget workload: two keys, values of the light weight and of the
\* weight of the whole budget.
BudgetWeights == {LightWeight, Budget}

InitBudget ==
    /\ shard = new(BudgetSmallThreshold, BudgetMainThreshold,
                   BudgetGhostThreshold)
    /\ overflow_checks \in BOOLEAN
    /\ last = [op |-> "new", key |-> 0, ret |-> FALSE, data |-> <<>>]
    /\ cache = AlsoCache_with(AlsoSize)
    /\ threads = NoThreads
    /\ arena = new(SmallThreshold, MainThreshold, GhostThreshold)

NextBudget ==
    \/ \E key \in Keys : Get(key)
    \/ \E key \in Keys, data_size \in BudgetWeights, data \in DataSet :
           Insert(key, data_size, data)
    \/ \E key \in Keys : Delete(key)

SpecBudget == InitBudget /\ [][NextBudget]_vars

\* The scenario workload: a shard of scenario S1 or of scenario S3, three
\* keys, values of the weight of the shard's scenario.
ScenarioKeys == 1 .. NumScenarioKeys
ScenarioWeight(s) ==
    IF s.small_threshold = S1SmallThreshold THEN S1Weight ELSE S3Weight
S1Shard == new(S1SmallThreshold, S1MainThreshold, S1GhostThreshold)
S3Shard == new(S3SmallThreshold, S3MainThreshold, S3GhostThreshold)

InitScenario ==
    /\ shard \in {S1Shard, S3Shard}
    /\ overflow_checks \in BOOLEAN
    /\ last = [op |-> "new", key |-> 0, ret |-> FALSE, data |-> <<>>]
    /\ cache = AlsoCache_with(AlsoSize)
    /\ threads = NoThreads
    /\ arena = new(SmallThreshold, MainThreshold, GhostThreshold)

NextScenario ==
    \/ \E key \in ScenarioKeys : Get(key)
    \/ \E key \in ScenarioKeys, data \in DataSet :
           Insert(key, ScenarioWeight(shard), data)
    \/ \E key \in ScenarioKeys : Delete(key)

SpecScenario == InitScenario /\ [][NextScenario]_vars

\* The AlsoCache workload: typed get and insert on the cache of cache.rs.
\* The values stored are a u8, two strings and a value that cannot be
\* encoded; a get asks for a u8 or a string.
AlsoValues ==
    {[ty |-> "u8", n |-> 1, s |-> <<>>],
     [ty |-> "string", n |-> 0, s |-> <<>>],
     [ty |-> "string", n |-> 0, s |-> <<1>>],
     [ty |-> "failing", n |-> 0, s |-> <<>>]}
AlsoTypes == {"u8", "string"}

AlsoBegin(c) == [c EXCEPT !.wrapped = FALSE, !.steps = 0]
AlsoEnd(c) == [c EXCEPT !.steps = 0]

InitAlso ==
    /\ cache = AlsoCache_with(AlsoSize)
    /\ threads = NoThreads
    /\ arena = new(SmallThreshold, MainThreshold, GhostThreshold)
    /\ shard = new(SmallThreshold, MainThreshold, GhostThreshold)
    /\ overflow_checks \in BOOLEAN
    /\ last = [op |-> "with", key |-> 0, ret |-> "Ok", data |-> <<>>]

AlsoGet(key, ty) ==
    /\ ~panicked(cache)
    /\ LET r == AlsoCache_get(AlsoBegin(cache), key, ty)
       IN  /\ cache' = AlsoEnd(r.c)
           /\ last' = [op |-> "get", key |-> key, ret |-> r.ret,
                       data |-> <<>>]
    /\ UNCHANGED <<shard, overflow_checks, threads, arena>>

AlsoInsert(key, value) ==
    /\ ~panicked(cache)
    /\ cache.small_size <= MaxAlsoCounter
    /\ cache.main_size <= MaxAlsoCounter
    /\ cache.ghost_size <= MaxAlsoCounter
    /\ LET r == AlsoCache_insert(AlsoBegin(cache), key, value)
       IN  /\ cache' = AlsoEnd(r.c)
           /\ last' = [op |-> "insert", key |-> key, ret |-> r.ret,
                       data |-> serialize(value).bytes]
    /\ UNCHANGED <<shard, overflow_checks, threads, arena>>

NextAlso ==
    \/ \E key \in Keys, ty \in AlsoTypes : AlsoGet(key, ty)
    \/ \E key \in Keys, value \in AlsoValues : AlsoInsert(key, value)

SpecAlso == InitAlso /\ [][NextAlso]_vars

\* The threads workload: NumThreads threads call get, insert and delete on
\* one shard through the shard lock.  A call takes the lock, runs on the
\* shard as it finds it, and stores the shard it computed when it releases
\* the lock.
ThreadCalls ==
    {[op |-> o, key |-> k, data_size |-> 0, data |-> <<>>] :
        o \in {"get", "delete"}, k \in Keys}
    \cup {[op |-> "insert", key |-> k, data_size |-> w, data |-> <<1>>] :
            k \in Keys, w \in 1 .. MaxWeight}

\* The public call on the shard: the shard after it and what it returns.
Apply(s, call) ==
    CASE call.op = "get" ->
           LET r == get_bytes(Begin(s), call.key)
           IN  [s |-> r.s, ret |-> r.found]
      [] call.op = "insert" ->
           [s |-> insert_bytes(Begin(s), call.key, call.data_size, call.data),
            ret |-> TRUE]
      [] call.op = "delete" ->
           LET r == delete(Begin(s), call.key)
           IN  [s |-> r.s, ret |-> r.ret]

\* The shard lock is free: no thread is inside a call.
lock_free(th) == \A t \in Threads : th[t].pc = "idle"

InitThreads ==
    /\ shard = new(SmallThreshold, MainThreshold, GhostThreshold)
    /\ overflow_checks \in BOOLEAN
    /\ last = [op |-> "new", key |-> 0, ret |-> FALSE, data |-> <<>>]
    /\ cache = AlsoCache_with(AlsoSize)
    /\ threads = NoThreads
    /\ arena = new(SmallThreshold, MainThreshold, GhostThreshold)

\* Thread t takes the shard lock for a call and starts on the shard.
Lock(t, call) ==
    /\ ~panicked(shard)
    /\ threads.th[t].pc = "idle"
    /\ threads.th[t].left > 0
    /\ lock_free(threads.th)
    /\ threads' =
          [th |-> [threads.th EXCEPT
                      ![t] = [pc |-> "locked", call |-> call,
                              pos |-> Len(threads.order) + 1,
                              left |-> threads.th[t].left - 1,
                              snap |-> shard]],
           order |-> Append(threads.order,
                            [thread |-> t, call |-> call, ret |-> FALSE])]
    /\ UNCHANGED <<shard, overflow_checks, last, cache, arena>>

\* Thread t finishes its call: the shard it computed is stored, the result
\* is returned and the lock released.
Unlock(t) ==
    /\ threads.th[t].pc = "locked"
    /\ LET r == Apply(threads.th[t].snap, threads.th[t].call)
       IN  /\ shard' = r.s
           /\ last' = [op |-> threads.th[t].call.op,
                       key |-> threads.th[t].call.key,
                       ret |-> r.ret, data |-> threads.th[t].call.data]
           /\ threads' =
                 [th |-> [threads.th EXCEPT
                             ![t].pc = "idle", ![t].call = NoCall,
                             ![t].pos = 0,
                             ![t].snap = NoThreads.th[t].snap],
                  order |-> [threads.order EXCEPT
                                ![threads.th[t].pos].ret = r.ret]]
    /\ UNCHANGED <<overflow_checks, cache, arena>>

NextThreads ==
    \/ \E t \in Threads, call \in ThreadCalls : Lock(t, call)
    \/ \E t \in Threads : Unlock(t)

SpecThreads == InitThreads /\ [][NextThreads]_vars

\* ------------------------------ NodeArena (src/cache_nodes_arena.rs)
\* NodeArena has the fields of CacheShard, and its get_bytes, its list
\* primitives, its allocation and its three eviction loops are those of the
\* shard line for line; insert_bytes and delete differ.

NodeArena_get_bytes(s, key) == get_bytes(s, key)

\* The existing-key branch of NodeArena::insert_bytes: freq is incremented,
\* the data replaced, and the call returns (no size update, no cascade).
NodeArena_insert_existing(s, idx, data) ==
    [s EXCEPT !.nodes[idx].freq = @ + 1, !.nodes[idx].data = data]

NodeArena_insert_bytes(s, key, data_size, data) ==
    LET hits == find(s, hash_one(key), key)
    IN  IF hits # {}
        THEN NodeArena_insert_existing(s, (CHOOSE e \in hits : TRUE).idx, data)
        ELSE evict_cascade(insert_new(s, key, data_size, data))

\* NodeArena::delete: as the shard's, but an indexed node with data that is
\* in no queue is reported as deleted and left alone.
NodeArena_delete(s, key) ==
    LET hits == find(s, hash_one(key), key)
    IN  IF hits = {}
        THEN [s |-> s, ret |-> FALSE]
        ELSE LET idx == (CHOOSE e \in hits : TRUE).idx
                 q   == s.nodes[idx].queue
             IN  IF Len(s.nodes[idx].data) <= 0
                 THEN [s |-> s, ret |-> FALSE]
                 ELSE IF q = "NoQueue"
                 THEN [s |-> s, ret |-> TRUE]
                 ELSE LET s1 == SubSize(s, q, s.nodes[idx].weight)
                          s2 == IF panicked(s1) THEN s1 ELSE delete_node(s1, idx, q)
                          s3 == IF panicked(s2) THEN s2 ELSE handle_node_eviction(s2, idx)
                      IN  [s |-> s3, ret |-> TRUE]

InitArena ==
    /\ shard = new(SmallThreshold, MainThreshold, GhostThreshold)
    /\ overflow_checks \in BOOLEAN
    /\ last = [op |-> "new", key |-> 0, ret |-> FALSE, data |-> <<>>]
    /\ cache = AlsoCache_with(AlsoSize)
    /\ threads = NoThreads
    /\ arena = new(SmallThreshold, MainThreshold, GhostThreshold)

ArenaGet(key) ==
    /\ ~panicked(arena)
    /\ LET r == NodeArena_get_bytes(Begin(arena), key)
       IN  /\ arena' = r.s
           /\ last' = [op |-> "get", key |-> key, ret |-> r.found, data |-> <<>>]
    /\ UNCHANGED <<shard, overflow_checks, cache, threads>>

\* The re-insert of a key whose freq has reached MaxArenaFreq is not explored.
ArenaInsert(key, data_size, data) ==
    /\ ~panicked(arena)
    /\ \A e \in find(arena, hash_one(key), key) :
           arena.nodes[e.idx].freq < MaxArenaFreq
    /\ arena' = NodeArena_insert_bytes(Begin(arena), key, data_size, data)
    /\ last' = [op |-> "insert", key |-> key, ret |-> TRUE, data |-> data]
    /\ UNCHANGED <<shard, overflow_checks, cache, threads>>

ArenaDelete(key) ==
    /\ ~panicked(arena)
    /\ LET r == NodeArena_delete(Begin(arena), key)
       IN  /\ arena' = r.s
           /\ last' = [op |-> "delete", key |-> key, ret |-> r.ret, data |-> <<>>]
    /\ UNCHANGED <<shard, overflow_checks, cache, threads>>

NextArena ==
    \/ \E key \in Keys : ArenaGet(key)
    \/ \E key \in Keys, data_size \in Weights, data \in DataSet :
           ArenaInsert(key, data_size, data)
    \/ \E key \in Keys : ArenaDelete(key)

SpecArena == InitArena /\ [][NextArena]_vars

\* ================================================================= claims
\* Helpers of the statements below; they read the state, not the operations.
Slots(s) == 1 .. Len(s.nodes)
KeyIndexed(s, key) == \E e \in s.map : s.nodes_keys[e.idx] = key
SlotOf(s, key) == (CHOOSE e \in s.map : s.nodes_keys[e.idx] = key).idx
WithinThresholds(s) ==
    /\ s.small_size <= s.small_threshold
    /\ s.main_size <= s.main_threshold
    /\ s.ghost_size <= s.ghost_threshold

RECURSIVE SumWeights(_, _)
SumWeights(s, slots) ==
    IF slots = {}
    THEN 0
    ELSE LET i == CHOOSE x \in slots : TRUE
         IN  s.nodes[i].weight + SumWeights(s, slots \ {i})

\* The weight of all slots that hold data, whatever queue they are in.
ResidentWeight(s) ==
    SumWeights(s, {i \in Slots(s) : Len(s.nodes[i].data) > 0})

\* C1: after every completed public operation the three sizes are within
\* their thresholds: small_size <= small_threshold, main_size <=
\* main_threshold and ghost_size <= ghost_threshold.
C1_SizesWithinThresholds ==
    ~panicked(shard) => WithinThresholds(shard)

\* C2: after every completed public operation the weights of the slots that
\* hold non-empty data sum to at most small_threshold + main_threshold.
C2_ResidentWeightWithinBudget ==
    ~panicked(shard) =>
        ResidentWeight(shard) <= shard.small_threshold + shard.main_threshold

\* What a get of key would return in state s: a hit, and the bytes.
Visible(s, key) == get_bytes(Begin(s), key).found
Value(s, key) == get_bytes(Begin(s), key).bytes

\* Every operation records itself in last, so a step that leaves
\* last' = [op, key, ..] is the operation op on key.

\* C3: after insert(k, v) immediately followed by get(k), when no queue is
\* over its threshold after the admission or in-place update (the cascade
\* moves nothing), get returns exactly the bytes v, for an unseen k and for a
\* k already in the index.
C3_InsertThenGetReturnsValue ==
    [][\A key \in Keys, data_size \in Weights, data \in DataSet :
          LET a == insert_admit(Begin(shard), key, data_size, data)
          IN  (/\ Insert(key, data_size, data)
               /\ ~panicked(a)
               /\ WithinThresholds(a)
               /\ ~panicked(shard'))
              => (Visible(shard', key) /\ Value(shard', key) = data)]_vars

\* C4: whenever get(k) returns a value, the bytes are those of the most recent
\* insert of k.  Stated step by step: in the state after any completed
\* operation, a key that get would hit either was just inserted, and then get
\* returns exactly the inserted bytes, or was already a hit before the step
\* with the same bytes.  By induction over the run, what get(k) returns is
\* what the most recent insert of k was given.
C4_GetReturnsLatestInsert ==
    [][\A key \in Keys :
          (~panicked(shard') /\ Visible(shard', key)) =>
              IF last'.op = "insert" /\ last'.key = key
              THEN Value(shard', key) = last'.data
              ELSE Visible(shard, key) /\ Value(shard', key) = Value(shard, key)]_vars

\* A get has returned a value while both keys, which have the same hash, were
\* in the index and a slot had been through the freelist.
C4_Witness ==
    /\ last.op = "get"
    /\ last.ret
    /\ Cardinality(shard.map) = 2
    /\ \A e1, e2 \in shard.map : e1.hash = e2.hash
    /\ shard.nodes_keys[1] = 2

\* C5: after delete(k), whatever it returned, get(k) misses until the next
\* insert of k: get(k) misses in the state a completed delete(k) leaves, and
\* a key that get misses stays missed over every step but an insert of it.
C5_DeletedKeyStaysMissing ==
    /\ []((last.op = "delete" /\ ~panicked(shard)) => ~Visible(shard, last.key))
    /\ [][\A key \in Keys :
             (/\ ~Visible(shard, key)
              /\ ~panicked(shard')
              /\ ~(last'.op = "insert" /\ last'.key = key))
             => ~Visible(shard', key)]_vars

\* A delete has just removed a key that held data, the other key is still in
\* the index, and a get of the deleted key would miss.
C5_Witness ==
    /\ last.op = "delete"
    /\ last.ret
    /\ ~panicked(shard)
    /\ ~Visible(shard, last.key)
    /\ Cardinality(shard.map) = 1

\* The other slots keep their data, weight, freq and queue.
OthersUntouched(s, t, idx) ==
    /\ Len(t.nodes) = Len(s.nodes)
    /\ \A j \in Slots(s) \ {idx} :
          /\ t.nodes[j].data = s.nodes[j].data
          /\ t.nodes[j].weight = s.nodes[j].weight
          /\ t.nodes[j].freq = s.nodes[j].freq
          /\ t.nodes[j].queue = s.nodes[j].queue

\* Slot idx is in no ring of t: no head and no link of another slot names it.
Unlinked(t, idx) ==
    /\ t.small_head # idx /\ t.main_head # idx /\ t.ghost_head # idx
    /\ t.nodes[idx].queue = "NoQueue"
    /\ \A j \in Slots(t) \ {idx} : t.nodes[j].next # idx /\ t.nodes[j].prev # idx

\* What delete(key) must have done to slot idx, which was in queue q.
Removed(s, t, key, idx, q) ==
    /\ Unlinked(t, idx)
    /\ Size(t, q) = Size(s, q) - s.nodes[idx].weight
    /\ \A o \in Queues \ {q} : Size(t, o) = Size(s, o)
    /\ ~KeyIndexed(t, key)
    /\ t.map = {e \in s.map : e.idx # idx}
    /\ t.freelist = Append(s.freelist, idx)
    /\ OthersUntouched(s, t, idx)

\* C6: delete(k) of an entry in Small or Main with non-empty data returns
\* true, unlinks the slot (fixing the head), lowers that queue's size by
\* exactly the slot's weight, removes k from the index and puts the slot on
\* the freelist; no other entry's data, weight, freq or queue changes.
C6_DeleteLiveEntry ==
    [][\A key \in Keys :
          (/\ last'.op = "delete" /\ last'.key = key
           /\ KeyIndexed(shard, key)
           /\ shard.nodes[SlotOf(shard, key)].queue \in {"Small", "Main"}
           /\ Len(shard.nodes[SlotOf(shard, key)].data) > 0)
          => (/\ ~panicked(shard')
              /\ last'.ret = TRUE
              /\ Removed(shard, shard', key, SlotOf(shard, key),
                         shard.nodes[SlotOf(shard, key)].queue))]_vars

\* C7: delete(k) of an entry in Ghost removes it (slot unlinked, ghost_size
\* lowered by its weight, index entry removed, slot freed) and returns true.
C7_DeleteGhostEntry ==
    [][\A key \in Keys :
          (/\ last'.op = "delete" /\ last'.key = key
           /\ KeyIndexed(shard, key)
           /\ shard.nodes[SlotOf(shard, key)].queue = "Ghost")
          => (/\ ~panicked(shard')
              /\ last'.ret = TRUE
              /\ Removed(shard, shard', key, SlotOf(shard, key), "Ghost"))]_vars

\* C8: delete(k) of a key that is not in the index returns false and leaves
\* the whole shard unchanged.
C8_DeleteAbsentKey ==
    [][\A key \in Keys :
          (last'.op = "delete" /\ last'.key = key /\ ~KeyIndexed(shard, key))
          => (last'.ret = FALSE /\ Begin(shard') = Begin(shard))]_vars

\* A delete of a key that is not in the index has run on a shard that holds
\* the other key, a freed slot and a ghost.
C8_Witness ==
    /\ last.op = "delete"
    /\ ~last.ret
    /\ ~KeyIndexed(shard, last.key)
    /\ Cardinality(shard.map) = 1
    /\ Len(shard.freelist) = 1

\* C9: of two consecutive calls delete(k); delete(k), the second returns
\* false.
C9_SecondDeleteReturnsFalse ==
    [][(/\ last.op = "delete"
        /\ last'.op = "delete"
        /\ last'.key = last.key
        /\ ~panicked(shard'))
       => last'.ret = FALSE]_vars

\* A delete has just returned true, and the same delete again returns false.
C9_Witness ==
    /\ last.op = "delete"
    /\ last.ret
    /\ ~panicked(shard)
    /\ delete(Begin(shard), last.key).ret = FALSE

\* C10: get(k) changes nothing but the freq of k's slot, which rises by one
\* per call until it stays at 3: the index, the key table, the freelist, the
\* heads, the sizes and every slot's data, weight, links and queue are kept.
C10_GetOnlyBumpsFreq ==
    [][\A key \in Keys :
          (last'.op = "get" /\ last'.key = key) =>
              /\ ~panicked(shard')
              /\ [Begin(shard') EXCEPT !.nodes = <<>>] = [Begin(shard) EXCEPT !.nodes = <<>>]
              /\ Len(shard'.nodes) = Len(shard.nodes)
              /\ \A j \in Slots(shard) :
                    /\ [shard'.nodes[j] EXCEPT !.freq = 0] = [shard.nodes[j] EXCEPT !.freq = 0]
                    /\ shard'.nodes[j].freq =
                          IF KeyIndexed(shard, key) /\ j = SlotOf(shard, key)
                             /\ shard.nodes[j].freq < 3
                          THEN shard.nodes[j].freq + 1
                          ELSE shard.nodes[j].freq]_vars

\* A get has run on a key whose freq was already at its ceiling, with the
\* other key in the index too.
C10_Witness ==
    /\ last.op = "get"
    /\ KeyIndexed(shard, last.key)
    /\ shard.nodes[SlotOf(shard, last.key)].freq = 3
    /\ Cardinality(shard.map) = 2

\* C11: get(k) on a key whose slot is in the Ghost queue returns a miss; it
\* bumps the slot's freq, saturating at 3, and leaves the slot's data empty.
C11_GetOnGhostMisses ==
    [][\A key \in Keys :
          (/\ last'.op = "get" /\ last'.key = key
           /\ KeyIndexed(shard, key)
           /\ shard.nodes[SlotOf(shard, key)].queue = "Ghost")
          => LET idx == SlotOf(shard, key)
             IN  /\ ~panicked(shard')
                 /\ last'.ret = FALSE
                 /\ shard'.nodes[idx].queue = "Ghost"
                 /\ shard'.nodes[idx].data = <<>>
                 /\ shard'.nodes[idx].freq =
                       IF shard.nodes[idx].freq < 3
                       THEN shard.nodes[idx].freq + 1
                       ELSE 3]_vars

\* The weights of the slots whose queue field is Q.
QueueWeight(s, Q) ==
    SumWeights(s, {i \in Slots(s) : s.nodes[i].queue = Q})

\* C12: at every operation boundary and for each queue Q of Small, Main and
\* Ghost, the size counter of Q equals the sum of weight over the slots whose
\* queue field is Q.
C12_SizeEqualsSumOfWeights ==
    ~panicked(shard) =>
        \A Q \in Queues : Size(shard, Q) = QueueWeight(shard, Q)

\* The slots a walk along next visits from slot i in at most n steps; the walk
\* stops at a link that is not a slot index.
RECURSIVE Walk(_, _, _)
Walk(s, i, n) ==
    IF n = 0 \/ ~InRange(s, i)
    THEN {}
    ELSE {i} \cup Walk(s, s.nodes[i].next, n - 1)

\* The ring of queue Q: the slots linked from its head.
Ring(s, Q) ==
    IF QueueHead(s, Q) = None THEN {} ELSE Walk(s, QueueHead(s, Q), Len(s.nodes))

\* The slots on the freelist.
FreeSlots(s) == {s.freelist[n] : n \in 1 .. Len(s.freelist)}

\* C13: at every operation boundary each slot is in exactly one of the Small
\* ring, the Main ring, the Ghost ring and the freelist: no slot is in a ring
\* and on the freelist, none is on the freelist twice, none is in two rings,
\* and a slot's queue field names the ring that contains it.
C13_SlotInExactlyOnePlace ==
    ~panicked(shard) =>
        /\ \A i \in Slots(shard) :
              Cardinality({Q \in Queues : i \in Ring(shard, Q)})
                  + (IF i \in FreeSlots(shard) THEN 1 ELSE 0) = 1
        /\ \A m, n \in 1 .. Len(shard.freelist) :
              shard.freelist[m] = shard.freelist[n] => m = n
        /\ FreeSlots(shard) \subseteq Slots(shard)
        /\ \A Q \in Queues : \A i \in Ring(shard, Q) : shard.nodes[i].queue = Q
        /\ \A i \in FreeSlots(shard) : shard.nodes[i].queue = "NoQueue"

\* A delete has just put one slot on the freelist while the other slot is
\* linked in the Main ring.
C13_Witness ==
    /\ ~panicked(shard)
    /\ last.op = "delete"
    /\ last.ret
    /\ Len(shard.nodes) = 2
    /\ Len(shard.freelist) = 1
    /\ Cardinality(Ring(shard, "Main")) = 1

\* The slot reached from slot i by n steps along next (None when a link on
\* the way is not a slot index).
RECURSIVE NextN(_, _, _)
NextN(s, i, n) ==
    IF ~InRange(s, i)
    THEN None
    ELSE IF n = 0 THEN i ELSE NextN(s, s.nodes[i].next, n - 1)

\* The slots whose queue field is Q.
Members(s, Q) == {i \in Slots(s) : s.nodes[i].queue = Q}

\* The ring of Q is well formed: the walk along next from the head comes back
\* to the head after exactly as many steps as Q has members and not before,
\* prev is the inverse of next on the ring, and no link of a ring member is a
\* freed slot.
RingWellFormed(s, Q) ==
    LET h == QueueHead(s, Q)
        count == Cardinality(Members(s, Q))
    IN  /\ InRange(s, h)
        /\ NextN(s, h, count) = h
        /\ \A n \in 1 .. count - 1 : NextN(s, h, n) # h
        /\ Ring(s, Q) = Members(s, Q)
        /\ \A i \in Ring(s, Q) :
              /\ InRange(s, s.nodes[i].next) /\ InRange(s, s.nodes[i].prev)
              /\ s.nodes[s.nodes[i].next].prev = i
              /\ s.nodes[s.nodes[i].prev].next = i
              /\ s.nodes[i].next \notin FreeSlots(s)
              /\ s.nodes[i].prev \notin FreeSlots(s)

\* C14: at every operation boundary and for each queue Q, the head of Q is
\* None exactly when no slot has queue = Q; otherwise following next from the
\* head returns to the head after exactly as many steps as Q has members,
\* prev is the inverse of next on that ring, and no link of a ring member
\* points to a freed slot.
C14_RingsWellFormed ==
    ~panicked(shard) =>
        \A Q \in Queues :
            IF Members(shard, Q) = {}
            THEN QueueHead(shard, Q) = None
            ELSE QueueHead(shard, Q) # None /\ RingWellFormed(shard, Q)

\* A delete has just taken a slot out of a Main ring of three, leaving a ring
\* of two and the slot on the freelist.
C14_Witness ==
    /\ ~panicked(shard)
    /\ last.op = "delete"
    /\ last.ret
    /\ Cardinality(Ring(shard, "Main")) = 2
    /\ Len(shard.freelist) = 1
    /\ Len(shard.nodes) = 3
    /\ \A i \in Slots(shard) : i \in Ring(shard, "Main") \/ i \in FreeSlots(shard)

\* C15: at every operation boundary every slot in the Ghost queue has empty
\* data, and every slot in Small or Main that was admitted with a non-empty
\* value has non-empty data: a Small or Main slot is empty after a step only
\* if the step inserted empty bytes under its key or it was already an empty
\* Small or Main slot before the step.
C15_GhostEmptyLiveNonEmpty ==
    /\ [](~panicked(shard) =>
             \A i \in Members(shard, "Ghost") : shard.nodes[i].data = <<>>)
    /\ [][~panicked(shard') =>
             \A i \in Members(shard', "Small") \cup Members(shard', "Main") :
                 shard'.nodes[i].data = <<>> =>
                     \/ /\ last'.op = "insert"
                        /\ last'.key = shard'.nodes_keys[i]
                        /\ last'.data = <<>>
                     \/ /\ i \in Members(shard, "Small") \cup Members(shard, "Main")
                        /\ shard.nodes[i].data = <<>>]_vars

\* C16: at every operation boundary the hash index maps key k to slot i if and
\* only if slot i is not on the freelist, the key side-table entry of slot i
\* is k and the slot's queue is Small, Main or Ghost; no key is mapped to two
\* slots and no freed slot is reachable through the index.
C16_IndexMatchesSlots ==
    ~panicked(shard) =>
        /\ Len(shard.nodes_keys) = Len(shard.nodes)
        /\ \A e \in shard.map : InRange(shard, e.idx)
        /\ \A i \in Slots(shard) :
              ([hash |-> hash_one(shard.nodes_keys[i]), idx |-> i] \in shard.map)
                  <=> (i \notin FreeSlots(shard) /\ shard.nodes[i].queue \in Queues)
        /\ \A e \in shard.map : e.hash = hash_one(shard.nodes_keys[e.idx])
        /\ \A e1, e2 \in shard.map :
              shard.nodes_keys[e1.idx] = shard.nodes_keys[e2.idx] => e1 = e2
        /\ \A key \in Keys \cup RingKeys :
              \A e \in find(shard, hash_one(key), key) : e.idx \notin FreeSlots(shard)

\* An eviction during an insert has just freed a slot: the side table still
\* names the slot's former key, which is no longer indexed, and the other key
\* is indexed.
C16_Witness ==
    /\ ~panicked(shard)
    /\ last.op = "insert"
    /\ Len(shard.freelist) = 1
    /\ Cardinality(shard.map) = 1
    /\ ~KeyIndexed(shard, shard.nodes_keys[shard.freelist[1]])

\* C17: the freq of every slot is in [0,3] in every reachable state: get and
\* re-insert stop incrementing it at 3, the Main second chance never takes it
\* below 0, a freed slot has freq 0, and a slot that a step brought into Main
\* has freq 0.
C17_FreqWithinRange ==
    /\ [](\A i \in Slots(shard) :
             /\ shard.nodes[i].freq \in 0 .. 3
             /\ i \in FreeSlots(shard) => shard.nodes[i].freq = 0)
    /\ [][\A i \in Members(shard', "Main") :
             (i \notin Slots(shard) \/ shard.nodes[i].queue # "Main")
                 => shard'.nodes[i].freq = 0]_vars

\* An insert has just run on a key that was already indexed and whose freq
\* is at the ceiling, and Main has a member.
C17_Witness ==
    /\ ~panicked(shard)
    /\ last.op = "insert"
    /\ KeyIndexed(shard, last.key)
    /\ shard.nodes[SlotOf(shard, last.key)].freq = 3
    /\ Cardinality(Members(shard, "Main")) >= 1

\* C18: an insert of an unseen key whose weight w satisfies
\* small_threshold < w <= main_threshold is admitted: when the insert returns
\* the entry holds its data in Small or Main and get(k) returns the value.
C18_MidWeightAdmitted ==
    [][\A key \in Keys, data_size \in Weights, data \in DataSet :
          (/\ Insert(key, data_size, data)
           /\ ~KeyIndexed(shard, key)
           /\ shard.small_threshold < data_size
           /\ data_size <= shard.main_threshold)
          => (/\ ~panicked(shard')
              /\ KeyIndexed(shard', key)
              /\ shard'.nodes[SlotOf(shard', key)].queue \in {"Small", "Main"}
              /\ shard'.nodes[SlotOf(shard', key)].data = data
              /\ Visible(shard', key)
              /\ Value(shard', key) = data)]_vars

\* C19: on a shard with budget B (thresholds Small 0.10 B, Main 0.90 B, Ghost
\* 0.60 B), inserting a value of weight exactly B admits it (get returns it)
\* and evicts all prior entries of the shard.
C19_BudgetWeightAdmitted ==
    [][\A key \in Keys, data \in DataSet :
          (/\ Insert(key, Budget, data)
           /\ 10 * shard.small_threshold = Budget
           /\ 10 * shard.main_threshold = 9 * Budget
           /\ 10 * shard.ghost_threshold = 6 * Budget)
          => (/\ ~panicked(shard')
              /\ Visible(shard', key)
              /\ Value(shard', key) = data
              /\ \A other \in Keys \ {key} : ~KeyIndexed(shard', other))]_vars

\* Nothing was allocated and nothing was taken from the freelist between s
\* and t: the node vector has the same length and the freelist of s is a
\* prefix of the freelist of t.
NoSlotTaken(s, t) ==
    /\ Len(t.nodes) = Len(s.nodes)
    /\ Len(t.nodes_keys) = Len(s.nodes_keys)
    /\ Len(t.freelist) >= Len(s.freelist)
    /\ SubSeq(t.freelist, 1, Len(s.freelist)) = s.freelist

\* C20: an insert on a key that is already in the index does not change the
\* slot assignment: after the call the index maps the key to the same slot
\* index as before, and no slot was allocated or taken from the freelist.
C20_ReinsertKeepsSlot ==
    [][\A key \in Keys \cup RingKeys :
          (/\ last'.op = "insert" /\ last'.key = key
           /\ KeyIndexed(shard, key)
           /\ ~panicked(shard'))
          => (/\ KeyIndexed(shard', key)
              /\ SlotOf(shard', key) = SlotOf(shard, key)
              /\ NoSlotTaken(shard, shard'))]_vars

\* C20, amended: after an insert on a key that is already in the index, the
\* key is either no longer in the index, its slot having been freed by the
\* insert's own cascade, or mapped to the same slot index as before; no slot
\* was allocated or taken from the freelist.
C20_ReinsertKeepsSlotUnlessEvicted ==
    [][\A key \in Keys \cup RingKeys :
          (/\ last'.op = "insert" /\ last'.key = key
           /\ KeyIndexed(shard, key)
           /\ ~panicked(shard'))
          => (/\ IF KeyIndexed(shard', key)
                 THEN SlotOf(shard', key) = SlotOf(shard, key)
                 ELSE SlotOf(shard, key) \in FreeSlots(shard')
              /\ NoSlotTaken(shard, shard'))]_vars

\* An insert has just run on a key that was already indexed (its freq was
\* bumped) and left it in its slot, while the freelist held a slot that the
\* insert did not take.
C20_Witness ==
    /\ ~panicked(shard)
    /\ last.op = "insert"
    /\ KeyIndexed(shard, last.key)
    /\ shard.nodes[SlotOf(shard, last.key)].freq >= 1
    /\ Len(shard.freelist) >= 1

\* Scenario S1 up to its third insert: the S1 shard after insert of key 1 and
\* of key 2, weight 40 each, with bytes d1 and d2 and no reads.
S1AfterTwo(d1, d2) ==
    insert_bytes(insert_bytes(S1Shard, 1, S1Weight, d1), 2, S1Weight, d2)

\* The Ghost slots of s that have weight w and empty data.
EmptyGhosts(s, w) ==
    {i \in Members(s, "Ghost") : s.nodes[i].weight = w /\ s.nodes[i].data = <<>>}

\* C21: scenario S1.  On a shard with thresholds Small 10, Main 90, Ghost 60,
\* after inserting three unseen keys 1, 2, 3 of weight 40 each with no reads,
\* Small holds at most 10 bytes, two evicted entries are in Ghost with weight
\* 40 each and empty data, and get(1) misses.
C21_ScenarioS1 ==
    [][\A d1, d2 \in DataSet :
          (/\ last'.op = "insert" /\ last'.key = 3
           /\ shard.small_threshold = S1SmallThreshold
           /\ shard = S1AfterTwo(d1, d2)
           /\ Insert(3, S1Weight, last'.data))
          => (/\ ~panicked(shard')
              /\ shard'.small_size <= S1SmallThreshold
              /\ Cardinality(EmptyGhosts(shard', S1Weight)) = 2
              /\ ~Visible(shard', 1))]_vars

\* C21, amended: after the three inserts Small is empty, only the entry
\* inserted last (key 3) is in Ghost, with weight 40 and empty data; the two
\* earlier entries were freed by the Ghost loop (two ghosts of weight 40
\* exceed the Ghost threshold 60) and are no longer indexed, and get(1)
\* misses.
C21_ScenarioS1OneGhost ==
    [][\A d1, d2 \in DataSet :
          (/\ last'.op = "insert" /\ last'.key = 3
           /\ shard.small_threshold = S1SmallThreshold
           /\ shard = S1AfterTwo(d1, d2)
           /\ Insert(3, S1Weight, last'.data))
          => (/\ ~panicked(shard')
              /\ shard'.small_size = 0
              /\ Members(shard', "Small") = {}
              /\ Members(shard', "Main") = {}
              /\ Members(shard', "Ghost") = {SlotOf(shard', 3)}
              /\ EmptyGhosts(shard', S1Weight) = Members(shard', "Ghost")
              /\ shard'.ghost_size = S1Weight
              /\ ~KeyIndexed(shard', 1) /\ ~KeyIndexed(shard', 2)
              /\ ~Visible(shard', 1))]_vars

\* The three inserts of scenario S1 have just run, with non-empty bytes.
C21_Witness ==
    /\ last.op = "insert" /\ last.key = 3 /\ last.data = <<1>>
    /\ shard = insert_bytes(S1AfterTwo(<<1>>, <<1>>), 3, S1Weight, <<1>>)

\* C22: scenario S3.  On a shard with thresholds Small 20, Main 180, Ghost
\* 120, after the insert of unseen key 1 with weight 150 and no reads, key 1
\* is in Ghost with weight 150; the following re-insert of key 1 promotes the
\* entry to Main, ghost_size drops by 150, main_size rises by 150, and get(1)
\* returns the new bytes.
C22_ScenarioS3 ==
    [][\A d1, d2 \in DataSet :
          (/\ shard = insert_bytes(S3Shard, 1, S3Weight, d1)
           /\ d2 # <<>>
           /\ Insert(1, S3Weight, d2))
          => (/\ KeyIndexed(shard, 1)
              /\ shard.nodes[SlotOf(shard, 1)].queue = "Ghost"
              /\ shard.nodes[SlotOf(shard, 1)].weight = S3Weight
              /\ ~panicked(shard')
              /\ KeyIndexed(shard', 1)
              /\ shard'.nodes[SlotOf(shard', 1)].queue = "Main"
              /\ shard'.ghost_size = shard.ghost_size - S3Weight
              /\ shard'.main_size = shard.main_size + S3Weight
              /\ Visible(shard', 1)
              /\ Value(shard', 1) = d2)]_vars

\* Key k has an entry of s in queue Q.
InQueue(s, key, Q) ==
    KeyIndexed(s, key) /\ s.nodes[SlotOf(s, key)].queue = Q

\* The entry of key in s was never read and never re-inserted since its
\* admission: it is in Small or Ghost, where freq only grows, and its freq is
\* still 0.
Untouched(s, key) ==
    /\ InQueue(s, key, "Small") \/ InQueue(s, key, "Ghost")
    /\ s.nodes[SlotOf(s, key)].freq = 0

\* The step is a get or an insert on key.
Touches(key) == last'.key = key /\ last'.op \in {"get", "insert"}

\* C25, first part: an entry that is never read and never re-inserted after
\* its admission never enters Main: an unseen key is not in Main when its
\* insert returns, an untouched Small entry is afterwards in Small, in Ghost
\* or gone, and an untouched Ghost entry is afterwards in Ghost or gone.
C25_UntouchedNeverEntersMain ==
    [][\A key \in Keys :
          /\ (~KeyIndexed(shard, key) /\ last'.op = "insert" /\ last'.key = key)
             => ~InQueue(shard', key, "Main")
          /\ (Untouched(shard, key) /\ ~Touches(key))
             => /\ ~InQueue(shard', key, "Main")
                /\ InQueue(shard, key, "Ghost") => ~InQueue(shard', key, "Small")
                /\ Untouched(shard', key) \/ ~KeyIndexed(shard', key)]_vars

\* C25, second part: an insert of an unseen key into a shard whose Small and
\* Ghost entries were all never read evicts nothing from Main: every key in
\* Main stays in Main with its slot, data and weight, and a retrievable one
\* stays retrievable with the same value.
C25_UnseenStreamKeepsMain ==
    [][\A key, m \in Keys :
          (/\ last'.op = "insert" /\ last'.key = key
           /\ ~KeyIndexed(shard, key)
           /\ \A u \in Keys :
                 (InQueue(shard, u, "Small") \/ InQueue(shard, u, "Ghost"))
                 => Untouched(shard, u)
           /\ InQueue(shard, m, "Main"))
          => (/\ InQueue(shard', m, "Main")
              /\ SlotOf(shard', m) = SlotOf(shard, m)
              /\ shard'.nodes[SlotOf(shard', m)].data
                    = shard.nodes[SlotOf(shard, m)].data
              /\ Visible(shard, m)
                 => Visible(shard', m) /\ Value(shard', m) = Value(shard, m))]_vars

\* C25: an entry that is never read by get and never re-inserted after its
\* admission never enters Main; hence a stream of inserts of unseen,
\* never-read keys never evicts an entry that is in Main, and keys in Main
\* stay retrievable through such a stream.
C25_StreamNeverEvictsMain ==
    C25_UntouchedNeverEntersMain /\ C25_UnseenStreamKeepsMain

\* C26: no sequence of get_bytes, insert_bytes and delete calls reaches the
\* panic of an eviction loop, where a queue's size exceeds its threshold
\* while the queue has no head.
C26_EvictionPanicsUnreachable ==
    shard.panic \notin {"evict_small_empty", "evict_ghost_empty",
                        "evict_main_empty"}

\* C27: in any sequence of public operations no decrement of small_size,
\* main_size or ghost_size subtracts more than the counter holds: no
\* operation wraps a counter (release build) or aborts on the subtraction
\* (debug build).
C27_CountersNeverUnderflow ==
    ~shard.wrapped /\ shard.panic # "sub_overflow"

\* Key has a resident entry in s: it is in Small or Main.
Resident(s, key) == InQueue(s, key, "Small") \/ InQueue(s, key, "Main")

\* C28: when insert_bytes(k, w, bytes) is called on a key whose entry is
\* resident in Small or Main, with non-empty bytes and w <= main_threshold,
\* the entry of k is still resident with its data when the insert returns, and
\* an immediately following get(k) returns bytes.
C28_ReinsertStaysResident ==
    [][\A key \in Keys, data_size \in Weights, data \in DataSet :
          (/\ Resident(shard, key)
           /\ data # <<>>
           /\ data_size <= shard.main_threshold
           /\ Insert(key, data_size, data)
           /\ ~panicked(shard'))
          => (/\ Resident(shard', key)
              /\ shard'.nodes[SlotOf(shard', key)].data = data
              /\ Visible(shard', key)
              /\ Value(shard', key) = data)]_vars

\* C28, amended: when such an insert returns, the entry of k is either still
\* resident with data = bytes, and get(k) returns bytes, or it was freed by
\* the insert's own cascade: k is no longer indexed and its slot is on the
\* freelist, which happens only if the in-place update left small_size or
\* main_size above its threshold.  The entry is never left in Ghost or
\* without its data.
C28_ReinsertStaysResidentUnlessEvicted ==
    [][\A key \in Keys, data_size \in Weights, data \in DataSet :
          (/\ Resident(shard, key)
           /\ data # <<>>
           /\ data_size <= shard.main_threshold
           /\ Insert(key, data_size, data)
           /\ ~panicked(shard'))
          => LET u == insert_admit(Begin(shard), key, data_size, data)
             IN  \/ /\ Resident(shard', key)
                    /\ shard'.nodes[SlotOf(shard', key)].data = data
                    /\ Visible(shard', key)
                    /\ Value(shard', key) = data
                 \/ /\ ~KeyIndexed(shard', key)
                    /\ SlotOf(shard, key) \in FreeSlots(shard')
                    /\ \/ u.small_size > u.small_threshold
                       \/ u.main_size > u.main_threshold]_vars

\* A shard in which key 1 is in Main with weight 2 and freq 2 and key 2 is in
\* Small with weight 1, every counter being the sum of its queue's weights.
C28_Before ==
    LET s0 == new(SmallThreshold, MainThreshold, GhostThreshold)
        s1 == insert_bytes(s0, 1, 1, <<1>>)
        s2 == get_bytes(s1, 1).s
        s3 == insert_bytes(s2, 2, 1, <<1>>)
        s4 == get_bytes(s3, 1).s
    IN  insert_bytes(s4, 1, 2, <<1>>)

\* The re-insert of key 2 with weight 2 <= main_threshold has just run on
\* that shard, where key 2 was resident: its cascade promoted key 2 to Main
\* behind key 1 and then freed it, while key 1 stays in Main.
C28_Witness ==
    /\ last.op = "insert" /\ last.key = 2 /\ last.data = <<1>>
    /\ Resident(C28_Before, 2)
    /\ shard = insert_bytes(C28_Before, 2, 2, <<1>>)
    /\ ~panicked(shard)
    /\ ~KeyIndexed(shard, 2)
    /\ InQueue(shard, 1, "Main")

\* C29: insert_bytes of an unseen key with non-empty bytes and weight
\* w <= small_threshold leaves the new entry in Small with its data when the
\* insert returns, from any reachable prior state, and the immediately
\* following get(k) hits.
C29_LightUnseenKeyStaysInSmall ==
    [][\A key \in Keys, data_size \in Weights, data \in DataSet :
          (/\ ~KeyIndexed(shard, key)
           /\ data # <<>>
           /\ data_size <= shard.small_threshold
           /\ Insert(key, data_size, data))
          => (/\ InQueue(shard', key, "Small")
              /\ shard'.nodes[SlotOf(shard', key)].data = data
              /\ shard'.nodes[SlotOf(shard', key)].weight = data_size
              /\ Visible(shard', key)
              /\ Value(shard', key) = data)]_vars

\* The insert of an unseen key with non-empty bytes and a weight within
\* small_threshold has just run (freq 0: the new-key branch) while Small held
\* an older entry: the Small loop moved the older entry of the other key to
\* Ghost and left the new one in Small.
C29_Witness ==
    /\ last.op = "insert" /\ last.data # <<>>
    /\ ~panicked(shard)
    /\ InQueue(shard, last.key, "Small")
    /\ shard.nodes[SlotOf(shard, last.key)].freq = 0
    /\ shard.nodes[SlotOf(shard, last.key)].weight = shard.small_threshold
    /\ shard.small_size = shard.small_threshold
    /\ \E other \in Keys \ {last.key} : InQueue(shard, other, "Ghost")

\* The state of the entry of key in s: Free when the key is not indexed,
\* otherwise the queue of its slot.
EntryState(s, key) ==
    IF KeyIndexed(s, key) THEN s.nodes[SlotOf(s, key)].queue ELSE "Free"

C23_CodecErrorsLeaveCacheUnchanged ==
    [][/\ \A key \in Keys, value \in AlsoValues :
             (AlsoInsert(key, value) /\ last'.ret = "Encode")
             => AlsoBegin(cache') = AlsoBegin(cache)
       /\ \A key \in Keys, ty \in AlsoTypes :
             (AlsoGet(key, ty) /\ last'.ret = "Decode")
             => /\ AlsoBegin(cache') = AlsoBegin(cache)
                /\ find(cache', hash_one(key), key) # {}]_vars

\* The calls of an acquisition order run one after the other from shard s,
\* starting at call i: the shard they leave, and whether each of them returns
\* what the order records for it.
RECURSIVE Replay(_, _, _)
Replay(s, order, i) ==
    IF i > Len(order)
    THEN [s |-> s, ok |-> TRUE]
    ELSE LET r == Apply(s, order[i].call)
             rest == Replay(r.s, order, i + 1)
         IN  [s |-> rest.s, ok |-> (r.ret = order[i].ret) /\ rest.ok]

\* No thread is inside a call: a quiescent point.
Quiescent == \A t \in Threads : threads.th[t].pc = "idle"

\* Every thread has made all its calls and returned from them.
Joined ==
    /\ Quiescent
    /\ \A t \in Threads : threads.th[t].left = 0

\* At a quiescent point the results of the calls made so far and the shard
\* equal those of the same calls run sequentially in the order in which they
\* took the shard lock.
Linearizable ==
    Quiescent =>
        LET r == Replay(new(SmallThreshold, MainThreshold, GhostThreshold),
                        threads.order, 1)
        IN  r.ok /\ r.s = shard

\* The universal invariants of the shard, on a shard that has not panicked:
\* sizes within thresholds, sizes equal to the sums of weights, index and
\* side-table agree, Ghost slots empty and Small/Main slots non-empty, rings
\* closed, freq within range; and no slot in two places.
ShardInvariants ==
    /\ C1_SizesWithinThresholds
    /\ C12_SizeEqualsSumOfWeights
    /\ C16_IndexMatchesSlots
    /\ ~panicked(shard) =>
          /\ \A i \in Members(shard, "Ghost") : shard.nodes[i].data = <<>>
          /\ \A i \in Members(shard, "Small") \cup Members(shard, "Main") :
                shard.nodes[i].data # <<>>
    /\ C14_RingsWellFormed
    /\ \A i \in Slots(shard) : shard.nodes[i].freq \in 0 .. FreqCeiling
    /\ C13_SlotInExactlyOnePlace

\* C24: get, insert and delete calls made by several threads on one shard
\* take effect atomically in the order in which they take the shard lock:
\* their results and the shard equal those of the same calls run
\* sequentially in that order, and once all threads have joined the shard
\* invariants hold and no slot is in two queues.
C24_ConcurrentCallsLinearizable ==
    /\ Linearizable
    /\ Joined => ShardInvariants

\* The states in which the loop of evict_small_if_needed, entered in state s,
\* starts an iteration.
RECURSIVE SmallLoopStates(_)
SmallLoopStates(s) ==
    IF panicked(s) \/ ~(s.small_size > s.small_threshold)
    THEN {}
    ELSE {s} \cup SmallLoopStates(evict_small_step(s))

\* The same for the loop of evict_ghost_if_needed.
RECURSIVE GhostLoopStates(_)
GhostLoopStates(s) ==
    IF panicked(s) \/ ~(s.ghost_size > s.ghost_threshold)
    THEN {}
    ELSE {s} \cup GhostLoopStates(evict_ghost_step(s))

\* The same for the loop of evict_main_if_needed.
RECURSIVE MainLoopStates(_)
MainLoopStates(s) ==
    IF panicked(s) \/ ~(s.main_size > s.main_threshold)
    THEN {}
    ELSE {s} \cup MainLoopStates(evict_main_step(s))

\* The iterations of the three loops within insert_bytes(s, key, data_size,
\* data): the states in which each loop starts an iteration.
SmallIterations(s, key, data_size, data) ==
    SmallLoopStates(insert_admit(Begin(s), key, data_size, data))
GhostIterations(s, key, data_size, data) ==
    GhostLoopStates(
        evict_small_if_needed(insert_admit(Begin(s), key, data_size, data)))
MainIterations(s, key, data_size, data) ==
    MainLoopStates(
        evict_ghost_if_needed(
            evict_small_if_needed(insert_admit(Begin(s), key, data_size, data))))

\* What C31 says of one Small-overflow step from x to y.  The sizes are u64
\* counters: a size raised by a weight is the sum in the counter's arithmetic.
SmallStepAsSpecified(x, y) ==
    LET d == x.small_head
    IN  /\ InRange(x, d)
        /\ ~panicked(y)
        /\ ~y.wrapped
        /\ y.nodes[d].queue # "Small"
        /\ y.small_head # d
        /\ y.small_size = x.small_size - x.nodes[d].weight
        /\ y.nodes[d].weight = x.nodes[d].weight
        /\ IF x.nodes[d].freq > 0
           THEN /\ y.nodes[d].queue = "Main"
                /\ y.nodes[d].freq = 0
                /\ y.nodes[d].data = x.nodes[d].data
                /\ y.main_size = wrapping_add(x.main_size, x.nodes[d].weight)
                /\ y.ghost_size = x.ghost_size
           ELSE /\ y.nodes[d].queue = "Ghost"
                /\ y.nodes[d].data = <<>>
                /\ y.ghost_size = wrapping_add(x.ghost_size, x.nodes[d].weight)
                /\ y.main_size = x.main_size

\* C31: each Small-overflow step of an insert pops the Small head and lowers
\* small_size by its weight; a head with freq > 0 moves to Main with freq 0,
\* its data kept and main_size raised by its weight; a head with freq 0 moves
\* to Ghost with its data cleared, its weight kept and ghost_size raised by
\* its weight.
C31_SmallOverflowStep ==
    [][\A data_size \in Weights :
          (last'.op = "insert" /\ Insert(last'.key, data_size, last'.data))
          => \A x \in SmallIterations(shard, last'.key, data_size, last'.data) :
                 SmallStepAsSpecified(x, evict_small_step(x))]_vars

\* Scenario S2 has just run: key 1 was inserted and read three times, and the
\* insert of key 2 overflowed Small and moved key 1 to Main with freq 0.
C31_Witness ==
    /\ last.op = "insert" /\ last.key = 2
    /\ shard = insert_bytes(
                   get_bytes(get_bytes(get_bytes(
                       insert_bytes(new(SmallThreshold, MainThreshold,
                                        GhostThreshold), 1, 1, <<1>>),
                       1).s, 1).s, 1).s,
                   2, 1, <<1>>)
    /\ shard.nodes[SlotOf(shard, 1)].queue = "Main"
    /\ shard.nodes[SlotOf(shard, 1)].freq = 0
    /\ shard.nodes[SlotOf(shard, 1)].data = <<1>>

\* What C32 says of one Ghost-overflow step from x to y.
GhostStepAsSpecified(x, y) ==
    LET d == x.ghost_head
    IN  /\ InRange(x, d)
        /\ ~panicked(y)
        /\ ~y.wrapped
        /\ y.nodes[d].queue # "Ghost"
        /\ y.ghost_head # d
        /\ y.ghost_size = x.ghost_size - x.nodes[d].weight
        /\ IF x.nodes[d].freq > 0 /\ x.nodes[d].data # <<>>
           THEN /\ y.nodes[d].queue = "Main"
                /\ y.nodes[d].data = x.nodes[d].data
                /\ y.main_size = wrapping_add(x.main_size, x.nodes[d].weight)
                /\ y.map = x.map
                /\ y.freelist = x.freelist
           ELSE /\ y.freelist = Append(x.freelist, d)
                /\ y.map = {e \in x.map : e.idx # d}
                /\ y.nodes[d].queue = "NoQueue"
                /\ y.main_size = x.main_size

\* C32: each Ghost-overflow step of an insert pops the Ghost head and lowers
\* ghost_size by its weight; the head is promoted to Main only if its freq is
\* above 0 and its data non-empty; otherwise (a ghost that was only read
\* included) its slot is freed and its index entry removed.
C32_GhostOverflowStep ==
    [][\A data_size \in Weights :
          (last'.op = "insert" /\ Insert(last'.key, data_size, last'.data))
          => \A x \in GhostIterations(shard, last'.key, data_size, last'.data) :
                 GhostStepAsSpecified(x, evict_ghost_step(x))]_vars

\* The member of Q that pop_head would take after the head: the youngest
\* member is head.next.
Youngest(s, Q) == s.nodes[QueueHead(s, Q)].next

\* What C33 says of one Main-overflow step from x to y.
MainStepAsSpecified(x, y) ==
    LET d == x.main_head
    IN  /\ InRange(x, d)
        /\ ~panicked(y)
        /\ ~y.wrapped
        /\ IF x.nodes[d].freq > 0
           THEN /\ y.nodes[d].freq = x.nodes[d].freq - 1
                /\ y.nodes[d].queue = "Main"
                /\ y.main_head # None
                /\ Youngest(y, "Main") = d
                /\ Members(y, "Main") = Members(x, "Main")
                /\ y.main_size = x.main_size
                /\ y.map = x.map
                /\ y.freelist = x.freelist
                /\ y.nodes[d].data = x.nodes[d].data
           ELSE /\ y.main_size = x.main_size - x.nodes[d].weight
                /\ y.freelist = Append(x.freelist, d)
                /\ y.map = {e \in x.map : e.idx # d}
                /\ y.nodes[d].queue = "NoQueue"
                /\ y.main_head # d

\* C33: each Main-overflow step of an insert pops the Main head; a head with
\* freq > 0 has its freq lowered by exactly one and is linked into Main again
\* as its youngest member, with main_size unchanged; a head with freq 0 is
\* freed, its index entry removed and main_size lowered by its weight; no
\* Main entry is freed at a pop where its freq is above 0.
C33_MainOverflowStep ==
    [][\A data_size \in Weights :
          (last'.op = "insert" /\ Insert(last'.key, data_size, last'.data))
          => \A x \in MainIterations(shard, last'.key, data_size, last'.data) :
                 MainStepAsSpecified(x, evict_main_step(x))]_vars

\* The members of a ring from slot i to the slot before h along prev, in at
\* most n steps.
RECURSIVE OrderFrom(_, _, _, _)
OrderFrom(s, i, h, n) ==
    IF n = 0 \/ ~InRange(s, i)
    THEN <<>>
    ELSE <<i>> \o (IF s.nodes[i].prev = h
                   THEN <<>>
                   ELSE OrderFrom(s, s.nodes[i].prev, h, n - 1))

\* The members of queue Q in the order in which pop_head would take them:
\* the head, then head.prev, and so on round the ring.
Order(s, Q) ==
    IF QueueHead(s, Q) = None
    THEN <<>>
    ELSE OrderFrom(s, QueueHead(s, Q), QueueHead(s, Q), Len(s.nodes))

Without(seq, d) == SelectSeq(seq, LAMBDA e : e # d)
Position(seq, d) == CHOOSE n \in 1 .. Len(seq) : seq[n] = d
Listed(seq) == {seq[n] : n \in 1 .. Len(seq)}

\* pop_head on a queue with a head: the head is removed, head.prev becomes
\* the head and the order of the others is kept.
PopsOldest(x, Q) ==
    LET p == pop_head(x, Q)
    IN  QueueHead(x, Q) # None =>
            /\ ~panicked(p.s)
            /\ p.detached = Head(Order(x, Q))
            /\ Order(p.s, Q) = Tail(Order(x, Q))
            /\ Len(Order(x, Q)) > 1 => QueueHead(p.s, Q) = x.nodes[QueueHead(x, Q)].prev

\* A step that links slot d into Q makes it the youngest member: last in the
\* order, head.next, with the head unchanged unless Q was empty.
LinkedYoungest(before, y, Q, d) ==
    /\ Order(y, Q) = Append(before, d)
    /\ y.nodes[QueueHead(y, Q)].next = d
    /\ before # <<>> => QueueHead(y, Q) = Head(before)

\* One step of a cascade loop from x keeps every queue first-in first-out.
CascadeStepFifo(x, y, Q) ==
    LET d == QueueHead(x, Q)
        after == [R \in Queues |-> IF R = Q THEN Tail(Order(x, R)) ELSE Order(x, R)]
    IN  (d # None /\ ~panicked(y)) =>
            /\ PopsOldest(x, Q)
            /\ \A R \in Queues :
                  IF y.nodes[d].queue = R
                  THEN LinkedYoungest(after[R], y, R, d)
                  ELSE Order(y, R) = after[R]

Pops(states, Q) == Cardinality({x \in states : QueueHead(x, Q) # None})

RECURSIVE SumFreq(_, _)
SumFreq(s, slots) ==
    IF slots = {}
    THEN 0
    ELSE LET i == CHOOSE x \in slots : TRUE
         IN  s.nodes[i].freq + SumFreq(s, slots \ {i})

\* No two iterations of a loop on Q pop the same slot.
PopsEachOnce(states, Q) ==
    \A x, y \in states :
        (x # y /\ QueueHead(x, Q) # None) => QueueHead(x, Q) # QueueHead(y, Q)

\* C35: every insert_bytes ends after finitely many cascade steps.  The Small
\* loop and the Ghost loop pop each member of their queue at most once, so at
\* most as many slots as the queue has members when the loop starts; the Main
\* loop pops at most as many times as Main has members plus the sum of their
\* freq when it starts.  A loop ends by returning or, when it finds its queue
\* empty, by the panic of its else branch: none runs forever.
C35_CascadeTerminates ==
    [][\A data_size \in Weights :
          (last'.op = "insert" /\ Insert(last'.key, data_size, last'.data))
          => \A a \in {insert_admit(Begin(shard), last'.key, data_size, last'.data)} :
             \A g0 \in {evict_small_if_needed(a)} :
             \A m0 \in {evict_ghost_if_needed(g0)} :
                 /\ \A si \in {SmallLoopStates(a)} :
                        /\ PopsEachOnce(si, "Small")
                        /\ Pops(si, "Small") <= Cardinality(Members(a, "Small"))
                 /\ \A gi \in {GhostLoopStates(g0)} :
                        /\ PopsEachOnce(gi, "Ghost")
                        /\ Pops(gi, "Ghost") <= Cardinality(Members(g0, "Ghost"))
                 /\ \A mi \in {MainLoopStates(m0)} :
                        Pops(mi, "Main")
                            <= Cardinality(Members(m0, "Main"))
                               + SumFreq(m0, Members(m0, "Main"))]_vars

\* A shard whose Main holds key 1 (weight 0) and key 2 (weight 2), key 1
\* the older: insert(1, 0), get(1), insert(2, 0), insert(2, 2), all with
\* empty bytes.
C35_Before ==
    insert_bytes(
        insert_bytes(
            get_bytes(
                insert_bytes(new(SmallThreshold, MainThreshold, GhostThreshold),
                             1, 0, <<>>),
                1).s,
            2, 0, <<>>),
        2, 2, <<>>)

\* The re-insert of key 1 with weight 1 has just run on that shard: it raised
\* main_size above the threshold, and the Main loop popped twice, giving key
\* 1 (freq 1) a second chance and then freeing key 2.
C35_Witness ==
    /\ last.op = "insert" /\ last.key = 1
    /\ ~panicked(shard)
    /\ shard = insert_bytes(C35_Before, 1, 1, <<>>)
    /\ Pops(MainIterations(C35_Before, 1, 1, <<>>), "Main") = 2
    /\ ~KeyIndexed(shard, 2)
    /\ InQueue(shard, 1, "Main")

\* C36: re-inserting a key whose entry is in Small or Main with a weight w
\* below the stored weight completes the update of the entry: no panic, the
\* size of that queue lowered by exactly old_weight - w before the cascade
\* runs, and weight = w.
C36_LighterReinsert ==
    [][\A data_size \in Weights :
          (/\ last'.op = "insert"
           /\ KeyIndexed(shard, last'.key)
           /\ shard.nodes[SlotOf(shard, last'.key)].queue \in {"Small", "Main"}
           /\ data_size < shard.nodes[SlotOf(shard, last'.key)].weight
           /\ Insert(last'.key, data_size, last'.data))
          => \A a \in {insert_admit(Begin(shard), last'.key, data_size, last'.data)} :
             \A idx \in {SlotOf(shard, last'.key)} :
                 /\ ~panicked(a)
                 /\ Size(a, shard.nodes[idx].queue)
                        = Size(shard, shard.nodes[idx].queue)
                          - (shard.nodes[idx].weight - data_size)
                 /\ a.nodes[idx].weight = data_size]_vars

\* C37: when a step frees slots (by eviction or by delete), exactly the index
\* entries that hold the index of a freed slot are removed: an entry of the
\* prior index survives the step if and only if its slot is not on the
\* freelist afterwards.  The entries of the other keys, under the same hash
\* as the freed key or not, are unchanged, and a lookup of such a key still
\* finds its slot.
C37_IndexEntryRemovedBySlot ==
    [][(last'.op \in {"insert", "delete"} /\ ~panicked(shard')) =>
          /\ \A e \in shard.map :
                e \in shard'.map <=> e.idx \notin FreeSlots(shard')
          /\ \A e \in shard'.map : e.idx \notin FreeSlots(shard')
          /\ \A key \in Keys :
                (/\ KeyIndexed(shard, key)
                 /\ SlotOf(shard, key) \notin FreeSlots(shard'))
                => find(shard', hash_one(key), key)
                       = {[hash |-> hash_one(key), idx |-> SlotOf(shard, key)]}]_vars

\* A delete has just freed the slot of its key while the other key, which
\* has the same hash, is indexed: the other key's entry is still there.
C37_Witness ==
    /\ last.op = "delete" /\ last.ret
    /\ ~panicked(shard)
    /\ ~KeyIndexed(shard, last.key)
    /\ \E other \in Keys \ {last.key} :
          /\ hash_one(other) = hash_one(last.key)
          /\ KeyIndexed(shard, other)
          /\ Visible(shard, other)

\* The slots of the AlsoCache c that are not on its freelist and whose fifo
\* is Q.
AlsoMembers(c, Q) ==
    {i \in 1 .. Len(c.nodes) :
        /\ c.nodes[i].fifo = Q
        /\ \A n \in 1 .. Len(c.nodes_freelist) : c.nodes_freelist[n] # i}

\* The head of Q is None or a slot whose fifo is Q.
AlsoHeadInQueue(c, Q) ==
    \/ QueueHead(c, Q) = None
    \/ /\ InRange(c, QueueHead(c, Q))
       /\ c.nodes[QueueHead(c, Q)].fifo = Q

\* C38: in AlsoCache, after the re-insert of a key whose entry is in Ghost
\* (promoted to Main at once), ghost_head is None or refers to a node whose
\* queue is Ghost, also when the entry was the only member or the head of
\* Ghost; and every insert leaves each node it moves to Ghost on the ring of
\* a ghost_head that is a Ghost node.
C38_GhostPromotionKeepsInvariants ==
    [][\A key \in Keys, value \in AlsoValues :
          (AlsoInsert(key, value) /\ last'.ret = "Ok" /\ ~panicked(cache')) =>
              /\ (/\ find(cache, hash_one(key), key) # {}
                  /\ \A e \in find(cache, hash_one(key), key) :
                         cache.nodes[e.idx].fifo = "Ghost")
                 => AlsoHeadInQueue(cache', "Ghost")
              /\ \A i \in AlsoMembers(cache', "Ghost") \ AlsoMembers(cache, "Ghost") :
                     /\ AlsoHeadInQueue(cache', "Ghost")
                     /\ i \in Walk(cache', cache'.ghost_head, Len(cache'.nodes))]_vars

\* C39: in NodeArena the freq of every slot is in [0,3] in every reachable
\* state, whatever get_bytes, insert_bytes and delete calls were made,
\* repeated insert_bytes on a present key included.
C39_ArenaFreqWithinRange ==
    \A i \in Slots(arena) : arena.nodes[i].freq \in 0 .. FreqCeiling

\* What C40 says of create_node on s: [s |-> the state after, idx |-> slot].
AllocatesAsSpecified(s, c, data_size, data) ==
    /\ IF Len(s.freelist) > 0
       THEN /\ c.idx = s.freelist[Len(s.freelist)]
            /\ c.s.freelist = SubSeq(s.freelist, 1, Len(s.freelist) - 1)
            /\ Len(c.s.nodes) = Len(s.nodes)
       ELSE /\ c.idx = Len(s.nodes) + 1
            /\ c.s.freelist = <<>>
            /\ Len(c.s.nodes) = Len(s.nodes) + 1
    /\ c.s.nodes[c.idx].freq = 0
    /\ c.s.nodes[c.idx].next = c.idx
    /\ c.s.nodes[c.idx].prev = c.idx
    /\ c.s.nodes[c.idx].data = data
    /\ c.s.nodes[c.idx].weight = data_size
    /\ \A i \in Slots(s) \ {c.idx} : c.s.nodes[i] = s.nodes[i]

\* C40: slot allocation takes a slot from the freelist whenever the freelist
\* is non-empty and appends to the node vector only when it is empty; at
\* every operation boundary the node vector and the key side-table have the
\* same length, which is the number of indexed slots plus the length of the
\* freelist; a slot on the freelist has empty data, weight 0, freq 0 and
\* next = prev = u32::MAX; a slot that is reused starts with freq 0 and
\* next = prev = itself, and the insert of an unseen key writes its key into
\* the side-table entry of its slot.
C40_SlotAllocation ==
    /\ [](~panicked(shard) =>
             /\ Len(shard.nodes) = Len(shard.nodes_keys)
             /\ Len(shard.nodes) = Cardinality(shard.map) + Len(shard.freelist)
             /\ Cardinality(FreeSlots(shard)) = Len(shard.freelist)
             /\ \A i \in FreeSlots(shard) :
                   /\ InRange(shard, i)
                   /\ shard.nodes[i].data = <<>>
                   /\ shard.nodes[i].weight = 0
                   /\ shard.nodes[i].freq = 0
                   /\ shard.nodes[i].next = U32_MAX
                   /\ shard.nodes[i].prev = U32_MAX)
    /\ [][\A data_size \in Weights :
             (/\ last'.op = "insert"
              /\ ~KeyIndexed(shard, last'.key)
              /\ Insert(last'.key, data_size, last'.data))
             => \A c \in {create_node(Begin(shard), data_size, last'.data)} :
                \A a \in {insert_admit(Begin(shard), last'.key, data_size, last'.data)} :
                    /\ AllocatesAsSpecified(Begin(shard), c, data_size, last'.data)
                    /\ ~panicked(a) =>
                          /\ a.nodes_keys[c.idx] = last'.key
                          /\ Len(a.nodes_keys) = Len(a.nodes)
                          /\ a.freelist = c.s.freelist
                          /\ [hash |-> hash_one(last'.key), idx |-> c.idx] \in a.map
                    /\ ~panicked(shard') =>
                          Len(shard'.nodes) = Len(c.s.nodes)]_vars

\* The insert of key 2 has just reused the slot that the delete of key 1
\* freed: the node vector still has one slot, the freelist is empty again.
C40_Witness ==
    /\ last.op = "insert" /\ last.key = 2
    /\ ~panicked(shard)
    /\ shard = insert_bytes(
                   delete(insert_bytes(new(SmallThreshold, MainThreshold,
                                           GhostThreshold), 1, 1, <<1>>),
                          1).s,
                   2, 1, <<1>>)
    /\ Len(shard.nodes) = 1
    /\ shard.nodes_keys = <<2>>
    /\ shard.freelist = <<>>
    /\ shard.nodes[1].freq = 0

====
